---- MODULE Spec2Model ----
(***************************************************************************)
(* Model of the AI-book-translator core: the strict-JSON protocol          *)
(* (services/llm_json.py, infrastructure/llm/json_parser.py) and the       *)
(* resumable translation loop (ui/workers/translation_worker.py) with its  *)
(* checkpoint file (infrastructure/persistence/translation_state.py).      *)
(*                                                                         *)
(* Text is modelled as a sequence of tokens.  A provider reply is a        *)
(* sequence of reply tokens (braces, brackets, whitespace, prose, a number *)
(* literal, or one "key": value member of an object); a Python str value   *)
(* is a sequence of one-character strings.                                 *)
(***************************************************************************)
EXTENDS Integers, Sequences, FiniteSets, TLC

VARIABLES
    \* ---- TranslationWorker (one worker object at a time) ----
    pc,              \* position of run() / of the process
    raw_text_present,\* document.raw_text is not None
    chunks_n,        \* len(chunks) of the document
    meta_first,      \* first key of meta["chapters"], if any
    resume_state,    \* constructor argument: <<>> or <<checkpoint>>
    start_index,     \* local of run()
    i,               \* loop variable of run()
    current_chapter, \* local of run()
    prev_tail,       \* local of run()
    tr,              \* local of run(): obj.get("translation")
    pause,           \* self._pause
    prompt,          \* prompts built for the chunk in flight
    buf,             \* text written to fp and not yet flushed
    file,            \* content of the output file on disk
    ckpt,            \* checkpoint file of this document on disk: <<>> or <<state>>
    other_ckpt,      \* checkpoint file of another document on disk: <<>> or <<state>>
    resume_state_path, \* constructor argument: <<>> (None) or <<path>>
    state_path,      \* run()'s local state_path; <<>> before it is determined
    \* ---- history of the job, kept for the properties ----
    crashes,         \* number of crashes so far
    runCalls,        \* chunk indices whose first provider call this run issued
    runAppends,      \* chunk indices this run wrote to fp
    lastDone,        \* last chunk whose checkpoint was saved
    failedAt,        \* chunk index at which this run failed, or -1
    signals,         \* signals emitted by this run: succeeded / failed
    \* ---- chat_json_strict_with_repair ----
    jpc,             \* position inside chat_json_strict_with_repair
    repair_retries,  \* argument
    raw,             \* first reply
    bad,             \* latest unparseable output
    attempt,         \* number of completed iterations of the repair loop
    ncalls,          \* provider.chat_text calls made by this invocation
    result,          \* returned object: <<>> or <<dict>>
    jerr,            \* exception leaving the function: "" if none
    last_err,        \* number of the call whose parse error last_err holds; 0 = None
    fix_user,        \* the reply embedded in the latest repair prompt: <<>> or <<reply>>
    last_reply,      \* history: the latest reply of provider.chat_text: <<>> or <<reply>>
    \* ---- MetadataService.generate_metadata ----
    mpc,             \* position inside generate_metadata ("off": not running)
    m_stage,         \* strategy last entered: "upload", "chunked", "summaries", "synthesis"
    file_path_present,   \* doc.file_path is truthy
    m_chunks_n,      \* len(chunks) under local_metadata_chunk_chars
    upload_retries,  \* settings.upload_retries
    json_repair_retries, \* settings.json_repair_retries
    max_chunk_summaries, \* settings.max_chunk_summaries_for_summary_of_summaries
    m_retry,         \* iteration of the transient-retry loop; -1 in the first try
    m_summaries,     \* len(chunk_summaries)
    first_chunks_with_hint, \* settings.local_metadata_first_chunks_with_title_author_hint
    m_summary_calls, \* history: the chunk-summary calls issued: chunk index, is_early_chunk
    m_reason,        \* reason handed to _chunked_fallback: <<>> or <<text>>
    m_result,        \* returned MetadataResult: <<>> or <<result>>
    m_err,           \* exception leaving generate_metadata: <<>> or <<error>>
    target_language, \* argument target_language
    m_attempts,      \* history: _upload_metadata invocations
    m_doc_calls,     \* history: chat_text_with_document calls
    m_att_start,     \* history: m_doc_calls when this _upload_metadata invocation began
    m_invalid_at,    \* history: last chat_text_with_document call whose reply did not parse; 0 = none
    m_first_doc_error,   \* history: first error chat_text_with_document raised: <<>> or <<error>>
    m_chat_calls,    \* history: chat_text calls
    m_transients,    \* history: _upload_metadata invocations a TransientLLMError left
    m_chat_start,    \* history: m_chat_calls when this upload attempt / the chunked strategy began
    \* ---- chunk_by_chars ----
    cpc,             \* position inside chunk_by_chars ("off": not running)
    c_text,          \* argument text
    chunk_size,      \* argument
    soft_split,      \* argument
    c_i,             \* local i (0-based offset into text)
    chunks,          \* local chunks / the returned list
    \* ---- save_state and the state directory ----
    spc,             \* position inside save_state ("off": not modelled running)
    fs,              \* the state directory: path -> <<>> (no file) or <<text>>
    s_obj,           \* the object being saved: <<>> or <<state>>
    s_prev,          \* history: the file at the checkpoint path when the save began
    s_found,         \* what find_state_by_hash returned after a crash: <<>> or <<result>>
    \* ---- a translation resumed under another chunk size ----
    rpc,             \* "off", "new", "running", "interrupted", "resumed"
    r_text,          \* document.raw_text
    r_size,          \* settings.translation_chunk_chars of the current session
    r_chunks,        \* chunks of the current run
    r_ckpt,          \* checkpoint on disk: <<>> or <<state>>
    r_start,         \* start_index of the current run
    r_prev_chunks,   \* history: chunks of the interrupted run
    \* ---- the translation prompt ----
    ppc,             \* "off", "meta", "loop", "built"
    p_chapters,      \* meta.get("chapters")
    p_ctx,           \* opt_ctx: <<>> without a "chapters" entry, else <<chapters>>
    p_current,       \* run()'s current_chapter
    p_prompt,        \* the chapter lines of the built user prompt
    \* ---- normalize_not_provided, validate_metadata_json ----
    npc,             \* "off", "parsed", "normalized", "validated"
    n_obj,           \* the parsed metadata object
    n_out,           \* what normalize_not_provided returned
    n_valid,         \* <<>>, or <<TRUE>> when validate_metadata_json returned, <<FALSE>> when it raised
    \* ---- metadata cache, AppWindow._on_document_ready ----
    kpc,             \* "off", "ops", "looked", "resolved", "decided"
    k_dir,           \* the metadata_cache directory: path -> file content
    k_ops,           \* save_metadata_cache / delete_metadata_cache_for_hash calls made
    k_last,          \* history: per hash, the metadata of the last save no delete followed
    k_found,         \* what find_metadata_cache_by_hash then load_metadata_cache gave
    k_memory,        \* self.metadata_result.metadata of the worker
    k_meta,          \* run()'s meta: <<>> before line 101, else <<meta>>
    k_hit,           \* history: the path the last find_metadata_cache_by_hash returned
    a_states,        \* the translation-state directory, sorted by name
    a_doc,           \* the DocumentInput handed to _on_document_ready and what reading it gives
    a_route,         \* "", "translate" (_go_translate) or "metadata" (_go_metadata)
    a_strategy,      \* strategy_used of state.metadata_result, "" when it is None
    a_resumed        \* state.translation_state is set

jvars == <<jpc, repair_retries, raw, bad, attempt, ncalls, result, jerr, last_err,
          fix_user, last_reply>>

wvars == <<pc, raw_text_present, chunks_n, meta_first, resume_state, start_index,
           i, current_chapter, prev_tail, tr, pause, prompt, buf, file, ckpt,
           other_ckpt, resume_state_path, state_path,
           crashes, runCalls, runAppends, lastDone, failedAt, signals>>

\* what generate_metadata's callee chat_json_strict_with_repair leaves alone
mvars_but_chat_calls ==
    <<mpc, m_stage, file_path_present, m_chunks_n, upload_retries,
      json_repair_retries, max_chunk_summaries, first_chunks_with_hint, m_retry, m_summaries, m_summary_calls, m_reason,
      m_result, m_err, target_language, m_attempts, m_doc_calls, m_att_start,
      m_invalid_at, m_first_doc_error, m_transients, m_chat_start>>

mvars == <<mpc, m_stage, file_path_present, m_chunks_n, upload_retries,
           json_repair_retries, max_chunk_summaries, first_chunks_with_hint, m_retry, m_summaries, m_summary_calls, m_reason,
           m_result, m_err, target_language, m_attempts, m_doc_calls, m_att_start,
           m_invalid_at, m_first_doc_error, m_chat_calls, m_transients,
           m_chat_start>>

svars == <<spc, fs, s_obj, s_prev, s_found>>
rvars == <<rpc, r_text, r_size, r_chunks, r_ckpt, r_start, r_prev_chunks>>
pvars == <<ppc, p_chapters, p_ctx, p_current, p_prompt>>
nvars == <<npc, n_obj, n_out, n_valid>>
kvars == <<kpc, k_dir, k_ops, k_last, k_found, k_memory, k_meta, k_hit,
           a_states, a_doc, a_route, a_strategy, a_resumed>>
xvars == <<nvars, kvars>>
ovars == <<svars, rvars, pvars, xvars>>
cvars == <<cpc, c_text, chunk_size, soft_split, c_i, chunks>>

vars == <<pc, raw_text_present, chunks_n, meta_first, resume_state, start_index,
          i, current_chapter, prev_tail, tr, pause, prompt, buf, file, ckpt,
          other_ckpt, resume_state_path, state_path,
          crashes, runCalls, runAppends, lastDone, failedAt, signals,
          jpc, repair_retries, raw, bad, attempt, ncalls, result, jerr, last_err,
          fix_user, last_reply,
          mpc, m_stage, file_path_present, m_chunks_n, upload_retries,
          json_repair_retries, max_chunk_summaries, first_chunks_with_hint, m_retry, m_summaries, m_summary_calls, m_reason,
          m_result, m_err, target_language, m_attempts, m_doc_calls, m_att_start,
          m_invalid_at, m_first_doc_error, m_chat_calls, m_transients,
          m_chat_start,
          cpc, c_text, chunk_size, soft_split, c_i, chunks,
          spc, fs, s_obj, s_prev, s_found,
          rpc, r_text, r_size, r_chunks, r_ckpt, r_start, r_prev_chunks,
          ppc, p_chapters, p_ctx, p_current, p_prompt,
          npc, n_obj, n_out, n_valid,
          kpc, k_dir, k_ops, k_last, k_found, k_memory, k_meta, k_hit,
          a_states, a_doc, a_route, a_strategy, a_resumed>>

\* generate_metadata is not running
MetaOff ==
    /\ mpc = "off"
    /\ m_stage = ""
    /\ file_path_present = FALSE
    /\ m_chunks_n = 0
    /\ upload_retries = 0
    /\ json_repair_retries = 0
    /\ max_chunk_summaries = 0
    /\ first_chunks_with_hint = 0
    /\ m_retry = -1
    /\ m_summaries = 0
    /\ m_summary_calls = <<>>
    /\ m_reason = <<>>
    /\ m_result = <<>>
    /\ m_err = <<>>
    /\ target_language = <<>>
    /\ m_attempts = 0
    /\ m_doc_calls = 0
    /\ m_att_start = 0
    /\ m_invalid_at = 0
    /\ m_first_doc_error = <<>>
    /\ m_chat_calls = 0
    /\ m_chat_start = 0
    /\ m_transients = 0

\* chunk_by_chars is not running
ChunkOff ==
    /\ cpc = "off"
    /\ c_text = <<>>
    /\ chunk_size = 1
    /\ soft_split = TRUE
    /\ c_i = 0
    /\ chunks = <<>>

(***************************************************************************)
(* Bounds of the model.                                                    *)
(***************************************************************************)
MaxChunks == 2
MaxCrashes == 2
MaxRepairs == 3

(***************************************************************************)
(* Program constants.                                                      *)
(***************************************************************************)
TAIL_CHARS == 300
WORKER_REPAIR_RETRIES == 2

(***************************************************************************)
(* Python values and text.                                                 *)
(***************************************************************************)
PyNone == [ty |-> "none", v |-> <<>>]
PyNum == [ty |-> "num", v |-> <<>>]
PyStr(s) == [ty |-> "str", v |-> s]

Tk(t) == [t |-> t, k |-> "", val |-> PyNone]
LB == Tk("{")
RB == Tk("}")
LBK == Tk("[")
RBK == Tk("]")
WS == Tk(" ")
PR == Tk("prose")
NUM == Tk("num")
Mem(key, value) == [t |-> "mem", k |-> key, val |-> value]

SetMin(S) == CHOOSE x \in S : \A y \in S : x <= y
SetMax(S) == CHOOSE x \in S : \A y \in S : x >= y

\* str.strip() on a sequence whose whitespace element is ws
Strip(s, ws) ==
    LET keep == {j \in 1..Len(s) : s[j] # ws}
    IN  IF keep = {} THEN <<>> ELSE SubSeq(s, SetMin(keep), SetMax(keep))

\* tr[-300:] if len(tr) > 300 else tr
last_translation_tail(s) ==
    IF Len(s) > TAIL_CHARS THEN SubSeq(s, Len(s) - TAIL_CHARS + 1, Len(s)) ELSE s

(***************************************************************************)
(* json.loads on token text: an object is "{" members "}", an array is      *)
(* "[" numbers "]", a scalar is a number; whitespace may separate tokens.  *)
(***************************************************************************)
IsObjectText(s) ==
    /\ Len(s) >= 2
    /\ s[1] = LB
    /\ s[Len(s)] = RB
    /\ \A j \in 2..(Len(s) - 1) : s[j].t \in {"mem", " "}

IsArrayText(s) ==
    /\ Len(s) >= 2
    /\ s[1] = LBK
    /\ s[Len(s)] = RBK
    /\ \A j \in 2..(Len(s) - 1) : s[j].t \in {"num", " "}

IsScalarText(s) == s = <<NUM>>

\* the dict json.loads builds: a later member with the same key wins
DictOf(s) ==
    LET keys == {s[j].k : j \in {m \in 1..Len(s) : s[m].t = "mem"}}
    IN  [key \in keys |->
            s[SetMax({j \in 1..Len(s) : s[j].t = "mem" /\ s[j].k = key})].val]

EmptyDict == [key \in {} |-> PyNone]

DictGet(d, key) == IF key \in DOMAIN d THEN d[key] ELSE PyNone

parse_json_strict(text) ==
    LET s == Strip(text, WS)
    IN  IF ~(IsObjectText(s) \/ IsArrayText(s) \/ IsScalarText(s))
        THEN [ok |-> FALSE, err |-> "decode", obj |-> EmptyDict]
        ELSE IF ~IsObjectText(s)
        THEN [ok |-> FALSE, err |-> "not_dict", obj |-> EmptyDict]
        ELSE [ok |-> TRUE, err |-> "", obj |-> DictOf(s)]

extract_json_object_loose(text) ==
    LET lbs == {j \in 1..Len(text) : text[j] = LB}
        rbs == {j \in 1..Len(text) : text[j] = RB}
    IN  IF text = <<>> \/ lbs = {} \/ rbs = {} THEN [some |-> FALSE, v |-> <<>>]
        ELSE IF SetMax(rbs) <= SetMin(lbs) THEN [some |-> FALSE, v |-> <<>>]
        ELSE [some |-> TRUE, v |-> SubSeq(text, SetMin(lbs), SetMax(rbs))]

(***************************************************************************)
(* Replies the provider may give.                                          *)
(***************************************************************************)
ChA == <<"A">>
ChB == <<" ", "B", " ">>
TrX == <<"x">>
TrY == <<" ", "y", "z", " ">>

Replies ==
    { <<LB, Mem("chapter", PyStr(ChA)), Mem("translation", PyStr(TrX)), RB>>,
      <<WS, LB, Mem("chapter", PyStr(ChB)), WS, Mem("translation", PyStr(TrY)), RB, WS>>,
      <<PR, LB, Mem("translation", PyStr(TrX)), RB, PR>>,
      <<LB, Mem("chapter", PyStr(ChB)), Mem("translation", PyStr(<<" ", " ">>)), RB>>,
      <<LB, Mem("chapter", PyStr(ChA)), RB>>,
      <<LB, Mem("chapter", PyNum), Mem("translation", PyNum), RB>>,
      <<LB, Mem("translation", PyStr(<<>>)), RB>>,
      <<LB, Mem("chapter", PyStr(<<>>)), Mem("translation", PyStr(TrX)), RB>>,
      <<LB, Mem("chapter", PyStr(<<" ", " ">>)), Mem("translation", PyStr(TrX)), RB>>,
      <<LB, Mem("chapter", PyNum), Mem("translation", PyStr(TrX)), RB>>,
      <<LBK, NUM, RBK>>,
      <<PR, PR>>,
      <<RB, PR, LB>>,
      <<PR, LB, PR, RB>>,
      <<>> }

(***************************************************************************)
(* Metadata objects: domain/schemas.py.                                    *)
(***************************************************************************)
\* a JSON array of one-character strings
PyList(items) == [ty |-> "list", v |-> items]
\* a JSON object, given by the shape of each of its values in key order:
\* "pair" is {"general": str, "detailed": str}, "str" is a plain string,
\* "general_only" is {"general": str}, "num_pair" is {"general": 1, "detailed": 1}
PyDict(shapes) == [ty |-> "dict", v |-> shapes]

REQUIRED_KEYS == <<"author(s)", "title", "language", "summary", "chapters">>
RequiredKeySet == {REQUIRED_KEYS[j] : j \in 1..Len(REQUIRED_KEYS)}

NOT_PROVIDED == <<"n", "o", "t", " ", "p", "r", "o", "v", "i", "d", "e", "d">>

\* str.strip() for the whitespace characters used here
StripChars(s) ==
    LET keep == {j \in 1..Len(s) : s[j] \notin {" ", "\n"}}
    IN  IF keep = {} THEN <<>> ELSE SubSeq(s, SetMin(keep), SetMax(keep))

\* str.lower()
Lower(s) ==
    [j \in 1..Len(s) |-> IF s[j] = "N" THEN "n" ELSE IF s[j] = "P" THEN "p" ELSE s[j]]

\* ", ".join(str(x).strip() for x in a if str(x).strip()): items are one character each
RECURSIVE JoinAuthors(_)
JoinAuthors(items) ==
    IF items = <<>> THEN <<>>
    ELSE LET rest == JoinAuthors(Tail(items))
         IN  IF StripChars(<<Head(items)>>) = <<>> THEN rest
             ELSE IF rest = <<>> THEN <<Head(items)>>
             ELSE <<Head(items), ",", " ">> \o rest

\* obj[k] = value
DictSet(d, key, value) ==
    [k \in DOMAIN d \cup {key} |-> IF k = key THEN value ELSE d[k]]

\* a whitespace-only string is kept
is_blank_no_strip(v) == v.ty = "none" \/ (v.ty = "str" /\ v.v = <<>>)

\* lines 49-51: v is None, or isinstance(v, str) and not v.strip()
is_blank(v) == v.ty = "none" \/ (v.ty = "str" /\ StripChars(v.v) = <<>>)

\* lines 47-52: None and blank strings become "not provided", key after key
RECURSIVE NormalizeKeys(_, _)
NormalizeKeys(obj, j) ==
    IF j > Len(REQUIRED_KEYS) THEN obj
    ELSE LET k == REQUIRED_KEYS[j]
             v == DictGet(obj, k)
         IN  NormalizeKeys(IF is_blank(v) THEN DictSet(obj, k, PyStr(NOT_PROVIDED)) ELSE obj, j + 1)

\* lines 55-60
NormalizeAuthors(obj) ==
    LET a == DictGet(obj, "author(s)")
    IN  IF a.ty = "list"
        THEN LET joined == JoinAuthors(a.v)
             IN  DictSet(obj, "author(s)",
                         PyStr(IF joined # <<>> THEN joined ELSE NOT_PROVIDED))
        ELSE IF a.ty = "none" THEN DictSet(obj, "author(s)", PyStr(NOT_PROVIDED))
        ELSE obj

\* lines 63-68
NormalizeChapters(obj) ==
    LET ch == DictGet(obj, "chapters")
    IN  IF ch.ty = "str"
        THEN IF Lower(StripChars(ch.v)) = NOT_PROVIDED
             THEN DictSet(obj, "chapters", PyDict(<<>>))
             ELSE obj
        ELSE IF ch.ty = "none" THEN DictSet(obj, "chapters", PyDict(<<>>))
        ELSE obj

normalize_not_provided(obj) ==
    NormalizeChapters(NormalizeAuthors(NormalizeKeys(obj, 1)))

\* validate_metadata_json: TRUE when it returns, FALSE when it raises SchemaValidationError
validate_metadata_json(obj) ==
    /\ \A k \in RequiredKeySet : k \in DOMAIN obj
    /\ \A k \in DOMAIN obj : k \in RequiredKeySet \/ k = "target_language"
    /\ \A k \in {"author(s)", "title", "language", "summary"} : obj[k].ty = "str"
    /\ obj["chapters"].ty = "dict"
    /\ \A j \in 1..Len(obj["chapters"].v) : obj["chapters"].v[j] = "pair"

(***************************************************************************)
(* What the provider may answer to MetadataService.                        *)
(***************************************************************************)
MetaFull ==
    <<Mem("author(s)", PyStr(<<"a">>)), Mem("title", PyStr(<<"t">>)),
      Mem("language", PyStr(<<"e", "n">>)), Mem("summary", PyStr(<<"s">>))>>

MetaReplies ==
    { \* conforms to what validation accepts
      <<LB>> \o MetaFull \o <<Mem("chapters", PyDict(<<"pair">>)), RB>>,
      \* accepted once normalised, and carries a target_language of its own
      <<LB, Mem("author(s)", PyList(<<"a", " ", "b">>)), Mem("title", PyStr(<<" ">>)),
        Mem("summary", PyNone), Mem("chapters", PyStr(<<"N", "o", "t", " ", "p", "r", "o", "v", "i", "d", "e", "d">>)),
        Mem("target_language", PyStr(<<"x", "x">>)), RB>>,
      \* chapters as plain strings: parses, fails validation
      <<LB>> \o MetaFull \o <<Mem("chapters", PyDict(<<"str">>)), RB>>,
      \* valid object inside prose
      <<PR, LB>> \o MetaFull \o <<Mem("chapters", PyDict(<<>>)), RB, PR>>,
      \* not JSON
      <<PR, PR>>,
      \* the empty reply
      <<>> }

\* exceptions chat_text_with_document raises, with their messages
DocErrors ==
    { [ty |-> "UploadNotSupportedError", msg |-> "no upload"],
      [ty |-> "UploadFailedError", msg |-> "upload failed"],
      [ty |-> "TransientLLMError", msg |-> "timeout"],
      [ty |-> "LLMError", msg |-> "bad request"] }

\* what provider.chat_text may answer to this caller
ChatReplies == IF mpc = "off" THEN Replies ELSE MetaReplies

(***************************************************************************)
(* chat_json_strict_with_repair, one action per provider call.             *)
(***************************************************************************)
\* a strict parse of the first reply that is not returned falls into the repair loop
first_reply_no_return(r) ==
    [returns |-> FALSE, obj |-> EmptyDict]

\* the first reply is parsed strictly only: no loose extraction
first_reply_strict_only(r) ==
    LET strict == parse_json_strict(r)
    IN  IF strict.ok THEN [returns |-> TRUE, obj |-> strict.obj]
        ELSE [returns |-> FALSE, obj |-> EmptyDict]

\* lines 17-25: what the first reply yields: strict parse, else loose extraction
first_reply(r) ==
    LET strict == parse_json_strict(r)
        extracted == extract_json_object_loose(r)
        loose == parse_json_strict(extracted.v)
    IN  IF strict.ok THEN [returns |-> TRUE, obj |-> strict.obj]
        ELSE IF extracted.some /\ loose.ok THEN [returns |-> TRUE, obj |-> loose.obj]
        ELSE [returns |-> FALSE, obj |-> EmptyDict]

\* an off-by-one loop bound: one iteration too many
repair_loop_continues_off_by_one(done, retries) == done <= retries

\* line 29: for _ in range(repair_retries)
repair_loop_continues(done, retries) == done < retries

\* every repair prompt embeds the original reply
repair_prompt_text_original(first, latest) == first

\* lines 31-35: fix_user embeds `bad`, which line 36 rebinds to each repair reply
repair_prompt_text(first, latest) == latest

\* first provider.chat_text call, strict parse, loose extraction
ChatFirstCall ==
    /\ jpc = "first"
    /\ \E r \in ChatReplies :
        LET out == first_reply(r)
        IN  /\ raw' = r
            /\ ncalls' = ncalls + 1
            /\ last_reply' = <<r>>
            /\ IF out.returns
               THEN /\ jpc' = "ret"
                    /\ result' = <<out.obj>>
                    /\ bad' = bad
               ELSE /\ jpc' = "repair"
                    /\ result' = result
                    /\ bad' = r
    /\ UNCHANGED <<repair_retries, attempt, jerr, last_err, fix_user>>
    /\ UNCHANGED wvars
    /\ m_chat_calls' = IF mpc = "off" THEN m_chat_calls ELSE m_chat_calls + 1
    /\ UNCHANGED <<mvars_but_chat_calls, cvars, ovars>>

\* one iteration of the repair loop
ChatRepairCall ==
    /\ jpc = "repair"
    /\ repair_loop_continues(attempt, repair_retries)
    /\ \E r \in ChatReplies :
        LET strict == parse_json_strict(r)
        IN  /\ fix_user' = <<repair_prompt_text(raw, bad)>>
            /\ bad' = r
            /\ last_reply' = <<r>>
            /\ ncalls' = ncalls + 1
            /\ IF strict.ok
               THEN /\ jpc' = "ret"
                    /\ result' = <<strict.obj>>
                    /\ UNCHANGED <<attempt, last_err>>
               ELSE /\ jpc' = "repair"
                    /\ result' = result
                    /\ attempt' = attempt + 1
                    /\ last_err' = ncalls + 1
    /\ UNCHANGED <<repair_retries, raw, jerr>>
    /\ UNCHANGED wvars
    /\ m_chat_calls' = IF mpc = "off" THEN m_chat_calls ELSE m_chat_calls + 1
    /\ UNCHANGED <<mvars_but_chat_calls, cvars, ovars>>

\* the loop is exhausted: raise InvalidJSONError
ChatExhausted ==
    /\ jpc = "repair"
    /\ ~repair_loop_continues(attempt, repair_retries)
    /\ jpc' = "raise"
    /\ jerr' = "InvalidJSONError"
    /\ UNCHANGED <<repair_retries, raw, bad, attempt, ncalls, result, last_err,
                   fix_user, last_reply>>
    /\ UNCHANGED wvars
    /\ UNCHANGED <<mvars, cvars, ovars>>

\* provider.chat_text raises (TransientLLMError, LLMError): it is not caught here
ChatProviderError ==
    /\ \/ jpc = "first"
       \/ jpc = "repair" /\ repair_loop_continues(attempt, repair_retries)
    /\ ncalls' = ncalls + 1
    /\ jpc' = "raise"
    /\ jerr' \in {"LLMError", "TransientLLMError"}
    /\ fix_user' = IF jpc = "repair" THEN <<repair_prompt_text(raw, bad)>> ELSE fix_user
    /\ UNCHANGED <<repair_retries, raw, bad, attempt, result, last_err, last_reply>>
    /\ UNCHANGED wvars
    /\ m_chat_calls' = IF mpc = "off" THEN m_chat_calls ELSE m_chat_calls + 1
    /\ UNCHANGED <<mvars_but_chat_calls, cvars, ovars>>

ChatNext == ChatFirstCall \/ ChatRepairCall \/ ChatExhausted \/ ChatProviderError

(***************************************************************************)
(* Values of the worker's variables.                                       *)
(***************************************************************************)
NoChapter == [some |-> FALSE, v |-> <<>>]
SomeChapter(s) == [some |-> TRUE, v |-> s]
NoPrompt == [chunk |-> -1, tail |-> <<>>, chapter |-> NoChapter]
NoneDone == [chunk |-> -1, chapter |-> NoChapter, translation |-> <<>>]

\* the strict-JSON protocol on its own, for every repair_retries
\* the hash and the title of another document
OtherHash == "hash-of-other-text"
MetaTitle == "T"
OtherTitle == "O"

\* the checkpoint an interrupted translation of the other document left
OtherState ==
    [document_hash |-> OtherHash,
     current_chunk_index |-> 1,
     current_chapter |-> <<"Z">>,
     last_translation_tail |-> <<"q">>]

\* save_state is not running
SaveOff ==
    /\ spc = "off"
    /\ fs = <<>>
    /\ s_obj = <<>>
    /\ s_prev = <<>>
    /\ s_found = <<>>

\* no resumed translation is modelled
ResizeOff ==
    /\ rpc = "off"
    /\ r_text = <<>>
    /\ r_size = 1
    /\ r_chunks = <<>>
    /\ r_ckpt = <<>>
    /\ r_start = 0
    /\ r_prev_chunks = <<>>

\* no prompt is being built
PromptOff ==
    /\ ppc = "off"
    /\ p_chapters = <<>>
    /\ p_ctx = <<>>
    /\ p_current = <<>>
    /\ p_prompt = <<>>

\* no metadata object is being normalised
NormOff ==
    /\ npc = "off"
    /\ n_obj = EmptyDict
    /\ n_out = EmptyDict
    /\ n_valid = <<>>

\* a document that was pasted, not yet read
NoDoc == [file_path |-> <<>>, raw_text |-> <<>>, read |-> <<>>]
NoLookup == [hash |-> "", meta |-> <<>>, raised |-> FALSE]

\* no cache operation and no document selection is modelled
CacheOff ==
    /\ kpc = "off"
    /\ k_dir = {}
    /\ k_ops = 0
    /\ k_last = [own |-> <<>>, other |-> <<>>]
    /\ k_found = NoLookup
    /\ k_memory = <<>>
    /\ k_meta = <<>>
    /\ k_hit = <<>>
    /\ a_states = <<>>
    /\ a_doc = NoDoc
    /\ a_route = ""
    /\ a_strategy = ""
    /\ a_resumed = FALSE

LaterOff == NormOff /\ CacheOff

InitJson ==
    /\ pc = "json"
    /\ raw_text_present = TRUE
    /\ chunks_n = 0
    /\ meta_first = NoChapter
    /\ resume_state = <<>>
    /\ start_index = 0
    /\ i = 0
    /\ current_chapter = NoChapter
    /\ prev_tail = <<>>
    /\ tr = PyNone
    /\ pause = FALSE
    /\ prompt = NoPrompt
    /\ buf = <<>>
    /\ file = <<>>
    /\ ckpt = <<>>
    /\ other_ckpt = <<OtherState>>
    /\ resume_state_path = <<>>
    /\ state_path = <<>>
    /\ crashes = 0
    /\ runCalls = <<>>
    /\ runAppends = <<>>
    /\ lastDone = NoneDone
    /\ failedAt = -1
    /\ signals = <<>>
    /\ jpc = "first"
    /\ repair_retries \in 0..MaxRepairs
    /\ raw = <<>>
    /\ bad = <<>>
    /\ attempt = 0
    /\ ncalls = 0
    /\ result = <<>>
    /\ jerr = ""
    /\ last_err = 0
    /\ fix_user = <<>>
    /\ last_reply = <<>>
    /\ MetaOff
    /\ ChunkOff
    /\ SaveOff
    /\ ResizeOff
    /\ PromptOff
    /\ LaterOff

SpecJson == InitJson /\ [][ChatNext]_vars

(***************************************************************************)
(* TranslationWorker.run and the checkpoint file.                          *)
(***************************************************************************)
DocHash == "hash-of-raw-text"

Hdr == [kind |-> "hdr", chunk |-> -1, text |-> <<>>]
TrLine(c, text) == [kind |-> "tr", chunk |-> c, text |-> text]

\* a path is the sequence of the parts of its file name; a dotted extension
\* is a part of its own
make_state_path(title, doc_hash) ==
    LET base == IF title = "" \/ title = "not provided" THEN doc_hash ELSE title
    IN  <<base, "__", doc_hash, ".json">>

OwnPath == make_state_path(MetaTitle, DocHash)
OtherPath == make_state_path(OtherTitle, OtherHash)

pathvars == <<other_ckpt, resume_state_path, state_path>>

\* the text of a file json.dumps wrote completely
FullText(obj) == [complete |-> TRUE, obj |-> obj]

\* glob("*.json"): the name ends with .json
glob_json(path) == path # <<>> /\ path[Len(path)] = ".json"

\* sorted(d.glob("*.json")) of a directory listing that is sorted by name
iter_state_files(dir) == SelectSeq(dir, LAMBDA f : glob_json(f.path))

\* json.loads raises on a text that is not a complete document
load_state_ok(f) == f.text.complete

RECURSIVE find_in(_, _)
find_in(files, doc_hash) ==
    IF files = <<>> THEN [some |-> FALSE, path |-> <<>>, obj |-> OtherState]
    ELSE LET f == Head(files)
         IN  IF load_state_ok(f) /\ f.text.obj.document_hash = doc_hash
             THEN [some |-> TRUE, path |-> f.path, obj |-> f.text.obj]
             ELSE find_in(Tail(files), doc_hash)

find_state_by_hash(dir, doc_hash) == find_in(iter_state_files(dir), doc_hash)

\* the state directory as the worker's two checkpoint files make it, sorted
StateDir(own, other) ==
    (IF other = <<>> THEN <<>> ELSE <<[path |-> OtherPath, text |-> FullText(other[1])]>>)
    \o (IF own = <<>> THEN <<>> ELSE <<[path |-> OwnPath, text |-> FullText(own[1])]>>)

\* lines 140-147: the path handed in, else make_state_path(title, doc_hash)
determine_state_path(given) ==
    IF given # <<>> THEN given[1] ELSE make_state_path(MetaTitle, DocHash)

\* save_state as run() sees it: the file at path holds obj afterwards
save_state(path, obj) ==
    IF path = OwnPath
    THEN ckpt' = <<obj>> /\ UNCHANGED other_ckpt
    ELSE other_ckpt' = <<obj>> /\ UNCHANGED ckpt

\* the dict run() hands to save_state
StateObj(idx, chapter, tail) ==
    [document_hash |-> DocHash,
     current_chunk_index |-> idx,
     current_chapter |-> IF chapter.some THEN chapter.v ELSE <<>>,
     last_translation_tail |-> tail]

\* the resume cursor is ignored
resume_start_index_ignored(st) == 0

\* lines 152-157: int(resume_state.get("current_chunk_index") or 0)
resume_start_index(st) == st.current_chunk_index

\* the preflight state always carries index 0
preflight_index_zero(start) == 0

\* line 177: "current_chunk_index": start_index
preflight_index(start) == start

\* the pause flag is not consulted
pause_wait_over_ignored(flag) == TRUE

\* lines 199-200: while self._pause: self.msleep(150)
pause_wait_over(flag) == ~flag

\* a whitespace-only translation is let through
translation_ok_no_strip(t) == t.ty = "str" /\ t.v # <<>>

\* line 225: not (not isinstance(tr, str) or not tr.strip())
translation_ok(t) == t.ty = "str" /\ Strip(t.v, " ") # <<>>

\* fp.flush() is missing: the text stays in the buffer
flush_skipped(f, b) == [file |-> f, buf |-> b]

\* line 236: fp.flush()
flush(f, b) == [file |-> f \o b, buf |-> <<>>]

\* a whitespace-only chapter is carried too
carry_chapter_unstripped_test(ch, cur) ==
    IF ch.ty = "str" /\ ch.v # <<>> THEN SomeChapter(Strip(ch.v, " ")) ELSE cur

\* lines 230-231: if isinstance(ch, str) and ch.strip(): current_chapter = ch.strip()
carry_chapter(ch, cur) ==
    IF ch.ty = "str" /\ Strip(ch.v, " ") # <<>> THEN SomeChapter(Strip(ch.v, " ")) ELSE cur

\* the loop stops one chunk early
loop_over_one_early(idx, n) == idx >= n - 1

\* line 198: for i in range(start_index, len(chunks)) has no index left
loop_over(idx, n) == idx >= n

\* the tail is not carried forward
next_prev_tail_stale(old, t) == old

\* line 238: prev_tail = tr[-300:] if len(tr) > 300 else tr
next_prev_tail(old, t) == last_translation_tail(t)

\* the checkpoint is left behind
delete_state_missing(c) == c

\* translation_state.delete_state: path.unlink(missing_ok=True)
delete_state(c) == <<>>

Running == {"init", "preflight", "open", "loop", "call", "write", "flush", "save", "delete"}

Init ==
    /\ pc = "init"
    /\ raw_text_present \in BOOLEAN
    /\ chunks_n \in (IF raw_text_present THEN 0..MaxChunks ELSE {0})
    /\ meta_first \in {NoChapter, SomeChapter(<<"I">>)}
    /\ resume_state = <<>>
    /\ start_index = 0
    /\ i = 0
    /\ current_chapter = NoChapter
    /\ prev_tail = <<>>
    /\ tr = PyNone
    /\ pause = FALSE
    /\ prompt = NoPrompt
    /\ buf = <<>>
    /\ file = <<>>
    /\ ckpt = <<>>
    /\ other_ckpt = <<OtherState>>
    /\ resume_state_path = <<>>
    /\ state_path = <<>>
    /\ crashes = 0
    /\ runCalls = <<>>
    /\ runAppends = <<>>
    /\ lastDone = NoneDone
    /\ failedAt = -1
    /\ signals = <<>>
    /\ jpc = "idle"
    /\ repair_retries = WORKER_REPAIR_RETRIES
    /\ raw = <<>>
    /\ bad = <<>>
    /\ attempt = 0
    /\ ncalls = 0
    /\ result = <<>>
    /\ jerr = ""
    /\ last_err = 0
    /\ fix_user = <<>>
    /\ last_reply = <<>>
    /\ MetaOff
    /\ ChunkOff
    /\ SaveOff
    /\ ResizeOff
    /\ PromptOff
    /\ LaterOff

\* run(), lines 85-171: raw_text check, resume detection
RunBegin ==
    /\ pc = "init"
    /\ IF ~raw_text_present
       THEN /\ pc' = "failed"
            /\ signals' = Append(signals, "failed")
            /\ UNCHANGED <<start_index, current_chapter, prev_tail, state_path>>
       ELSE /\ pc' = "preflight"
            /\ signals' = signals
            /\ state_path' = determine_state_path(resume_state_path)
            /\ IF resume_state # <<>> /\ resume_state[1].document_hash = DocHash
               THEN LET st == resume_state[1]
                    IN  /\ start_index' = resume_start_index(st)
                        /\ current_chapter' =
                               IF Strip(st.current_chapter, " ") # <<>>
                               THEN SomeChapter(st.current_chapter)
                               ELSE NoChapter
                        /\ prev_tail' = st.last_translation_tail
               ELSE /\ start_index' = 0
                    /\ current_chapter' =
                           IF resume_state = <<>> THEN meta_first ELSE NoChapter
                    /\ prev_tail' = <<>>
    /\ UNCHANGED <<raw_text_present, chunks_n, meta_first, resume_state, i, tr, pause,
                   prompt, buf, file, ckpt, other_ckpt, resume_state_path, crashes,
                   runCalls, runAppends, lastDone, failedAt>>
    /\ UNCHANGED jvars
    /\ UNCHANGED <<mvars, cvars, ovars>>

\* run(), lines 173-186: the preflight state
SavePreflight ==
    /\ pc = "preflight"
    /\ save_state(state_path,
                  StateObj(preflight_index(start_index), current_chapter, prev_tail))
    /\ UNCHANGED <<resume_state_path, state_path>>
    /\ pc' = "open"
    /\ UNCHANGED <<raw_text_present, chunks_n, meta_first, resume_state, start_index, i,
                   current_chapter, prev_tail, tr, pause, prompt, buf, file, crashes,
                   runCalls, runAppends, lastDone, failedAt, signals>>
    /\ UNCHANGED jvars
    /\ UNCHANGED <<mvars, cvars, ovars>>

\* the header is written at every open
is_empty_always(tell, st_size) == TRUE

\* lines 64-68: fp.tell() == 0 and Path(...).stat().st_size == 0
is_empty(tell, st_size) == tell = 0 /\ st_size = 0

\* run(), lines 189-196: open for append, _write_header_if_needed; the handle
\* is opened in append mode, so tell() is the size of the file on disk
OpenOutput ==
    /\ pc = "open"
    /\ buf' = IF is_empty(Len(file), Len(file)) THEN <<Hdr>> ELSE <<>>
    /\ i' = start_index
    /\ pc' = "loop"
    /\ UNCHANGED <<raw_text_present, chunks_n, meta_first, resume_state, start_index,
                   current_chapter, prev_tail, tr, pause, prompt, file, ckpt, pathvars, crashes,
                   runCalls, runAppends, lastDone, failedAt, signals>>
    /\ UNCHANGED jvars
    /\ UNCHANGED <<mvars, cvars, ovars>>

\* run(), lines 198-220: pause wait, prompts, entry into chat_json_strict_with_repair
ChunkBegin ==
    /\ pc = "loop"
    /\ i < chunks_n
    /\ pause_wait_over(pause)
    /\ prompt' = [chunk |-> i, tail |-> prev_tail, chapter |-> current_chapter]
    /\ runCalls' = Append(runCalls, i)
    /\ pc' = "call"
    /\ jpc' = "first"
    /\ repair_retries' = WORKER_REPAIR_RETRIES
    /\ raw' = <<>>
    /\ bad' = <<>>
    /\ attempt' = 0
    /\ ncalls' = 0
    /\ result' = <<>>
    /\ jerr' = ""
    /\ last_err' = 0
    /\ fix_user' = <<>>
    /\ last_reply' = <<>>
    /\ UNCHANGED <<raw_text_present, chunks_n, meta_first, resume_state, start_index, i,
                   current_chapter, prev_tail, tr, pause, buf, file, ckpt, pathvars, crashes,
                   runAppends, lastDone, failedAt, signals>>
    /\ UNCHANGED <<mvars, cvars, ovars>>

\* leaving the `with` block on an exception closes fp, then failed is emitted
Abort ==
    /\ pc' = "failed"
    /\ jpc' = "idle"
    /\ file' = file \o buf
    /\ buf' = <<>>
    /\ failedAt' = i
    /\ signals' = Append(signals, "failed")
    /\ UNCHANGED <<raw_text_present, chunks_n, meta_first, resume_state, start_index, i,
                   current_chapter, prev_tail, tr, pause, prompt, ckpt, pathvars, crashes,
                   runCalls, runAppends, lastDone>>
    /\ UNCHANGED <<repair_retries, raw, bad, attempt, ncalls, result, jerr, last_err>>
    /\ fix_user' = <<>>
    /\ last_reply' = <<>>
    /\ UNCHANGED <<mvars, cvars, ovars>>

\* chat_json_strict_with_repair raised
ChunkCallFailed ==
    /\ pc = "call"
    /\ jpc = "raise"
    /\ Abort

\* run(), lines 222-228: the translation-field check fails
ChunkReplyRejected ==
    /\ pc = "call"
    /\ jpc = "ret"
    /\ ~translation_ok(DictGet(result[1], "translation"))
    /\ Abort

\* run(), lines 222-231: the reply is accepted, the chapter carried forward
ChunkReplyAccepted ==
    /\ pc = "call"
    /\ jpc = "ret"
    /\ LET ch == DictGet(result[1], "chapter")
           t == DictGet(result[1], "translation")
       IN  /\ translation_ok(t)
           /\ tr' = t
           /\ current_chapter' = carry_chapter(ch, current_chapter)
    /\ pc' = "write"
    /\ jpc' = "idle"
    /\ UNCHANGED <<raw_text_present, chunks_n, meta_first, resume_state, start_index, i,
                   prev_tail, pause, prompt, buf, file, ckpt, pathvars, crashes, runCalls,
                   runAppends, lastDone, failedAt, signals>>
    /\ UNCHANGED <<repair_retries, raw, bad, attempt, ncalls, result, jerr, last_err>>
    /\ fix_user' = <<>>
    /\ last_reply' = <<>>
    /\ UNCHANGED <<mvars, cvars, ovars>>

\* run(), lines 234-235: fp.write(tr.strip()); fp.write("\n")
WriteChunk ==
    /\ pc = "write"
    /\ buf' = Append(buf, TrLine(i, Strip(tr.v, " ")))
    /\ runAppends' = Append(runAppends, i)
    /\ pc' = "flush"
    /\ UNCHANGED <<raw_text_present, chunks_n, meta_first, resume_state, start_index, i,
                   current_chapter, prev_tail, tr, pause, prompt, file, ckpt, pathvars, crashes,
                   runCalls, lastDone, failedAt, signals>>
    /\ UNCHANGED jvars
    /\ UNCHANGED <<mvars, cvars, ovars>>

\* run(), lines 236-238: fp.flush(); prev_tail
FlushChunk ==
    /\ pc = "flush"
    /\ file' = flush(file, buf).file
    /\ buf' = flush(file, buf).buf
    /\ prev_tail' = next_prev_tail(prev_tail, tr.v)
    /\ pc' = "save"
    /\ UNCHANGED <<raw_text_present, chunks_n, meta_first, resume_state, start_index, i,
                   current_chapter, tr, pause, prompt, ckpt, pathvars, crashes, runCalls,
                   runAppends, lastDone, failedAt, signals>>
    /\ UNCHANGED jvars
    /\ UNCHANGED <<mvars, cvars, ovars>>

\* run(), lines 241-257: save_state with the next index, then the next iteration
SaveChunkState ==
    /\ pc = "save"
    /\ save_state(state_path, StateObj(i + 1, current_chapter, prev_tail))
    /\ UNCHANGED <<resume_state_path, state_path>>
    /\ lastDone' = [chunk |-> i, chapter |-> current_chapter, translation |-> tr.v]
    /\ i' = i + 1
    /\ pc' = "loop"
    /\ UNCHANGED <<raw_text_present, chunks_n, meta_first, resume_state, start_index,
                   current_chapter, prev_tail, tr, pause, prompt, buf, file, crashes,
                   runCalls, runAppends, failedAt, signals>>
    /\ UNCHANGED jvars
    /\ UNCHANGED <<mvars, cvars, ovars>>

\* the for loop is exhausted: the `with` block closes fp
LoopExit ==
    /\ pc = "loop"
    /\ loop_over(i, chunks_n)
    /\ file' = file \o buf
    /\ buf' = <<>>
    /\ pc' = "delete"
    /\ UNCHANGED <<raw_text_present, chunks_n, meta_first, resume_state, start_index, i,
                   current_chapter, prev_tail, tr, pause, prompt, ckpt, pathvars, crashes,
                   runCalls, runAppends, lastDone, failedAt, signals>>
    /\ UNCHANGED jvars
    /\ UNCHANGED <<mvars, cvars, ovars>>

\* run(), lines 260-263: delete_state, succeeded
DeleteState ==
    /\ pc = "delete"
    /\ IF state_path = OwnPath
       THEN ckpt' = delete_state(ckpt) /\ UNCHANGED other_ckpt
       ELSE other_ckpt' = delete_state(other_ckpt) /\ UNCHANGED ckpt
    /\ UNCHANGED <<resume_state_path, state_path>>
    /\ signals' = Append(signals, "succeeded")
    /\ pc' = "done"
    /\ UNCHANGED <<raw_text_present, chunks_n, meta_first, resume_state, start_index, i,
                   current_chapter, prev_tail, tr, pause, prompt, buf, file, crashes,
                   runCalls, runAppends, lastDone, failedAt>>
    /\ UNCHANGED jvars
    /\ UNCHANGED <<mvars, cvars, ovars>>

\* request_pause / request_resume, called from the GUI thread at any moment
request_pause ==
    /\ pc \in Running
    /\ ~pause
    /\ pause' = TRUE
    /\ UNCHANGED <<pc, raw_text_present, chunks_n, meta_first, resume_state, start_index,
                   i, current_chapter, prev_tail, tr, prompt, buf, file, ckpt, pathvars, crashes,
                   runCalls, runAppends, lastDone, failedAt, signals>>
    /\ UNCHANGED jvars
    /\ UNCHANGED <<mvars, cvars, ovars>>

request_resume ==
    /\ pc \in Running
    /\ pause
    /\ pause' = FALSE
    /\ UNCHANGED <<pc, raw_text_present, chunks_n, meta_first, resume_state, start_index,
                   i, current_chapter, prev_tail, tr, prompt, buf, file, ckpt, pathvars, crashes,
                   runCalls, runAppends, lastDone, failedAt, signals>>
    /\ UNCHANGED jvars
    /\ UNCHANGED <<mvars, cvars, ovars>>

\* the process dies: unflushed text reaches the file up to an arbitrary point,
\* the checkpoint file keeps its last complete content
Crash ==
    /\ pc \in Running
    /\ crashes < MaxCrashes
    /\ crashes' = crashes + 1
    /\ \E m \in 0..Len(buf) : file' = file \o SubSeq(buf, 1, m)
    /\ buf' = <<>>
    /\ pc' = "crashed"
    /\ jpc' = "idle"
    /\ UNCHANGED <<raw_text_present, chunks_n, meta_first, resume_state, start_index, i,
                   current_chapter, prev_tail, tr, pause, prompt, ckpt, pathvars, runCalls,
                   runAppends, lastDone, failedAt, signals>>
    /\ UNCHANGED <<repair_retries, raw, bad, attempt, ncalls, result, jerr, last_err>>
    /\ fix_user' = <<>>
    /\ last_reply' = <<>>
    /\ UNCHANGED <<mvars, cvars, ovars>>

\* a new worker is constructed for the same document with the checkpoint found on disk
Restart ==
    /\ pc \in {"crashed", "failed"}
    /\ raw_text_present
    /\ LET found == find_state_by_hash(StateDir(ckpt, other_ckpt), DocHash)
       IN  /\ resume_state' = IF found.some THEN <<found.obj>> ELSE <<>>
           /\ resume_state_path' = IF found.some THEN <<found.path>> ELSE <<>>
    /\ state_path' = <<>>
    /\ pc' = "init"
    /\ start_index' = 0
    /\ i' = 0
    /\ current_chapter' = NoChapter
    /\ prev_tail' = <<>>
    /\ tr' = PyNone
    /\ pause' = FALSE
    /\ prompt' = NoPrompt
    /\ runCalls' = <<>>
    /\ runAppends' = <<>>
    /\ failedAt' = -1
    /\ signals' = <<>>
    /\ raw' = <<>>
    /\ bad' = <<>>
    /\ attempt' = 0
    /\ ncalls' = 0
    /\ result' = <<>>
    /\ jerr' = ""
    /\ last_err' = 0
    /\ fix_user' = <<>>
    /\ last_reply' = <<>>
    /\ UNCHANGED <<raw_text_present, chunks_n, meta_first, buf, file, ckpt, other_ckpt,
                   crashes,
                   lastDone, jpc, repair_retries>>
    /\ UNCHANGED <<mvars, cvars, ovars>>

WorkerNext ==
    \/ RunBegin
    \/ SavePreflight
    \/ OpenOutput
    \/ ChunkBegin
    \/ ChatFirstCall
    \/ ChatRepairCall
    \/ ChatExhausted
    \/ ChatProviderError
    \/ ChunkCallFailed
    \/ ChunkReplyRejected
    \/ ChunkReplyAccepted
    \/ WriteChunk
    \/ FlushChunk
    \/ SaveChunkState
    \/ LoopExit
    \/ DeleteState

Next ==
    \/ WorkerNext
    \/ request_pause
    \/ request_resume
    \/ Crash
    \/ Restart

Spec == Init /\ [][Next]_vars

\* the output file an interrupted run left when its checkpoint says idx
OutputOf(idx) == <<Hdr>> \o [j \in 1..idx |-> TrLine(j - 1, <<"x">>)]

\* the checkpoints of this document a caller can hand to the constructor
OwnStates(n) ==
    {StateObj(idx, ch, IF idx = 0 THEN <<>> ELSE <<"x">>) :
        idx \in 0..n, ch \in {NoChapter, SomeChapter(<<"I">>)}}

\* a worker constructed with any resume_state and resume_state_path: none,
\* those of this document, or those of another document
InitStart ==
    /\ pc = "init"
    /\ raw_text_present = TRUE
    /\ chunks_n \in 1..MaxChunks
    /\ meta_first \in {NoChapter, SomeChapter(<<"I">>)}
    /\ resume_state \in {<<>>, <<OtherState>>} \cup {<<st>> : st \in OwnStates(chunks_n)}
    /\ resume_state_path \in {<<>>, <<OwnPath>>, <<OtherPath>>}
    /\ state_path = <<>>
    /\ IF resume_state # <<>> /\ resume_state[1].document_hash = DocHash
       THEN /\ ckpt = resume_state
            /\ file = OutputOf(resume_state[1].current_chunk_index)
       ELSE /\ ckpt = <<>>
            /\ file = <<>>
    /\ other_ckpt = <<OtherState>>
    /\ start_index = 0
    /\ i = 0
    /\ current_chapter = NoChapter
    /\ prev_tail = <<>>
    /\ tr = PyNone
    /\ pause = FALSE
    /\ prompt = NoPrompt
    /\ buf = <<>>
    /\ crashes = 0
    /\ runCalls = <<>>
    /\ runAppends = <<>>
    /\ lastDone = NoneDone
    /\ failedAt = -1
    /\ signals = <<>>
    /\ jpc = "idle"
    /\ repair_retries = WORKER_REPAIR_RETRIES
    /\ raw = <<>>
    /\ bad = <<>>
    /\ attempt = 0
    /\ ncalls = 0
    /\ result = <<>>
    /\ jerr = ""
    /\ last_err = 0
    /\ fix_user = <<>>
    /\ last_reply = <<>>
    /\ MetaOff
    /\ ChunkOff
    /\ SaveOff
    /\ ResizeOff
    /\ PromptOff
    /\ LaterOff

SpecStart == InitStart /\ [][WorkerNext]_vars

\* one execution of run() with the GUI thread: every step of run() that can
\* be taken is taken in the end (each provider call returns or raises); the
\* 150 ms poll of lines 199-200 finds the flag clear if it is clear again and
\* again; a pause that is set is released at some time
RunNext ==
    \/ WorkerNext
    \/ request_pause
    \/ request_resume

\* the worker as the application constructs it: without a checkpoint, or
\* with the checkpoint of this document and the path it was found at
InitRun ==
    /\ InitStart
    /\ meta_first = NoChapter
    /\ resume_state = <<>> \/ resume_state[1].document_hash = DocHash
    /\ resume_state # <<>> => resume_state[1].current_chapter = <<>>
    /\ resume_state_path = IF resume_state = <<>> THEN <<>> ELSE <<OwnPath>>

SpecRun ==
    /\ InitRun
    /\ [][RunNext]_vars
    /\ WF_vars(WorkerNext)
    /\ SF_vars(ChunkBegin)
    /\ WF_vars(request_resume)

(***************************************************************************)
(* MetadataService.generate_metadata: one action per provider call.        *)
(***************************************************************************)
MaxUploadRetries == 2
MaxMetaChunks == 2
MaxEarlyChunks == 1
MaxJsonRepairRetries == 1

UPLOAD_TRANSIENT_FAILURE == "upload transient failure"
NO_FILE_REASON == "no file provided for upload"

TargetLanguages == {<<"u", "k">>}

MetadataResult(metadata, strategy_used, fallback_reason) ==
    [metadata |-> metadata, strategy_used |-> strategy_used,
     fallback_reason |-> fallback_reason]

NoReason == <<>>

DocumentReadError == [ty |-> "DocumentReadError", msg |-> "Chunked fallback requires raw_text"]
SchemaValidationError == [ty |-> "SchemaValidationError", msg |-> "Metadata JSON"]
\* an exception that left chat_json_strict_with_repair or chat_text
ChatError(ty) == [ty |-> ty, msg |-> "chat_text"]

\* the upload strategy is tried whatever doc.file_path is
use_upload_always(fp) == TRUE

\* line 38: if doc.file_path
use_upload(fp) == fp

\* the precondition on raw_text is not checked
raw_text_missing_unchecked(present) == FALSE

\* line 147: if doc.raw_text is None
raw_text_missing(present) == ~present

\* every error but a provider error is absorbed by falling back
absorbed_by_fallback_any(e) == e.ty # "TransientLLMError" /\ e.ty # "LLMError"

\* lines 46, 61: except (UploadNotSupportedError, UploadFailedError)
absorbed_by_fallback(e) == e.ty \in {"UploadNotSupportedError", "UploadFailedError"}

\* one retry too many
retry_loop_continues_off_by_one(next, retries) == next <= retries

\* line 52: for _ in range(self.settings.upload_retries)
retry_loop_continues(next, retries) == next < retries

\* the reply's own target_language is kept
attach_target_language_if_absent(meta, tl) ==
    IF "target_language" \in DOMAIN meta THEN meta
    ELSE [k \in DOMAIN meta \cup {"target_language"} |->
            IF k = "target_language" THEN PyStr(tl) ELSE meta[k]]

\* lines 43, 57, 181: meta["target_language"] = target_language
attach_target_language(meta, tl) == DictSet(meta, "target_language", PyStr(tl))

\* chunks[: max_chunk_summaries_for_summary_of_summaries]
SummariesWanted ==
    IF m_chunks_n < max_chunk_summaries THEN m_chunks_n ELSE max_chunk_summaries

MetaGoto(p) ==
    /\ mpc' = p
    /\ UNCHANGED <<m_stage, m_retry, m_reason, m_result, m_err, m_attempts,
                   m_att_start, m_chat_start>>

\* self._upload_metadata(doc.file_path) is entered
StartAttempt(r) ==
    /\ mpc' = "upload_schema"
    /\ m_stage' = "upload"
    /\ m_retry' = r
    /\ m_attempts' = m_attempts + 1
    /\ m_att_start' = m_doc_calls'
    /\ m_chat_start' = m_chat_calls'
    /\ UNCHANGED <<m_reason, m_result, m_err>>

\* self._chunked_fallback(doc, target_language, reason=reason) is entered
EnterChunked(reason) ==
    /\ mpc' = "chunked_entry"
    /\ m_stage' = "chunked"
    /\ m_reason' = <<reason>>
    /\ m_chat_start' = m_chat_calls'
    /\ UNCHANGED <<m_retry, m_result, m_err, m_attempts, m_att_start>>

MetaRaise(e) ==
    /\ mpc' = "raised"
    /\ m_err' = <<e>>
    /\ UNCHANGED <<m_stage, m_retry, m_reason, m_result, m_attempts, m_att_start,
                   m_chat_start>>

MetaReturn(res) ==
    /\ mpc' = "returned"
    /\ m_result' = <<res>>
    /\ UNCHANGED <<m_stage, m_retry, m_reason, m_err, m_attempts, m_att_start,
                   m_chat_start>>

\* the except clauses of lines 46-67 on an exception raised inside a try block
HandleUploadError(e) ==
    /\ m_transients' = IF e.ty = "TransientLLMError" THEN m_transients + 1 ELSE m_transients
    /\ IF absorbed_by_fallback(e) THEN EnterChunked(e.msg)
       ELSE IF e.ty = "TransientLLMError"
       THEN IF retry_loop_continues(m_retry + 1, upload_retries)
            THEN StartAttempt(m_retry + 1)
            ELSE EnterChunked(UPLOAD_TRANSIENT_FAILURE)
       ELSE MetaRaise(e)

\* lines 41-44, 55-58: normalize, validate, attach, return, inside the try block
FinishUpload(obj) ==
    LET meta == normalize_not_provided(obj)
    IN  IF validate_metadata_json(meta)
        THEN /\ MetaReturn(MetadataResult(attach_target_language(meta, target_language),
                                          "upload", NoReason))
             /\ UNCHANGED m_transients
        ELSE HandleUploadError(SchemaValidationError)

\* lines 179-184: normalize, validate, attach, return
FinishChunked(obj, reason) ==
    LET meta == normalize_not_provided(obj)
    IN  IF validate_metadata_json(meta)
        THEN MetaReturn(MetadataResult(attach_target_language(meta, target_language),
                                       "chunked", reason))
        ELSE MetaRaise(SchemaValidationError)

\* chat_json_strict_with_repair(..., repair_retries=settings.json_repair_retries) is entered
CallChatJson ==
    /\ jpc' = "first"
    /\ repair_retries' = json_repair_retries
    /\ raw' = <<>>
    /\ bad' = <<>>
    /\ attempt' = 0
    /\ ncalls' = 0
    /\ result' = <<>>
    /\ jerr' = ""
    /\ last_err' = 0
    /\ fix_user' = <<>>
    /\ last_reply' = <<>>

mconfig == <<file_path_present, m_chunks_n, upload_retries, json_repair_retries,
             max_chunk_summaries, first_chunks_with_hint, target_language>>

RecordDocError(e) ==
    m_first_doc_error' = IF m_first_doc_error = <<>> THEN <<e>> ELSE m_first_doc_error

\* line 38
MetaBegin ==
    /\ mpc = "begin"
    /\ UNCHANGED <<m_doc_calls, m_chat_calls>>
    /\ IF use_upload(file_path_present)
       THEN StartAttempt(-1)
       ELSE EnterChunked(NO_FILE_REASON)
    /\ UNCHANGED <<m_summaries, m_summary_calls, m_invalid_at, m_first_doc_error, mconfig, m_transients>>
    /\ UNCHANGED <<jvars, wvars, cvars, ovars>>

\* lines 95-120: the schema-mode call returns
UploadSchemaCall ==
    /\ mpc = "upload_schema"
    /\ m_doc_calls' = m_doc_calls + 1
    /\ UNCHANGED m_chat_calls
    /\ \E r \in MetaReplies :
        LET strict == parse_json_strict(r)
        IN  IF r # <<>> /\ strict.ok
            THEN /\ FinishUpload(strict.obj)
                 /\ UNCHANGED m_invalid_at
            ELSE /\ MetaGoto("upload_plain")
                 /\ m_invalid_at' = m_doc_calls + 1
                 /\ UNCHANGED m_transients
    /\ UNCHANGED <<m_summaries, m_summary_calls, m_first_doc_error, mconfig>>
    /\ UNCHANGED <<jvars, wvars, cvars, ovars>>

\* lines 112-113: the schema-mode call raises and `except Exception` swallows it
UploadSchemaError ==
    /\ mpc = "upload_schema"
    /\ m_doc_calls' = m_doc_calls + 1
    /\ UNCHANGED m_chat_calls
    /\ \E e \in DocErrors : RecordDocError(e)
    /\ MetaGoto("upload_plain")
    /\ UNCHANGED <<m_summaries, m_summary_calls, m_invalid_at, mconfig, m_transients>>
    /\ UNCHANGED <<jvars, wvars, cvars, ovars>>

\* lines 124-142: the prompt-only call returns
UploadPlainCall ==
    /\ mpc = "upload_plain"
    /\ m_doc_calls' = m_doc_calls + 1
    /\ UNCHANGED m_chat_calls
    /\ \E r \in MetaReplies :
        LET strict == parse_json_strict(r)
        IN  IF strict.ok
            THEN /\ FinishUpload(strict.obj)
                 /\ UNCHANGED m_invalid_at
                 /\ UNCHANGED jvars
            ELSE /\ MetaGoto("upload_repair")
                 /\ m_invalid_at' = m_doc_calls + 1
                 /\ UNCHANGED m_transients
                 /\ CallChatJson
    /\ UNCHANGED <<m_summaries, m_summary_calls, m_first_doc_error, mconfig>>
    /\ UNCHANGED <<wvars, cvars, ovars>>

\* line 124: the prompt-only call raises
UploadPlainError ==
    /\ mpc = "upload_plain"
    /\ m_doc_calls' = m_doc_calls + 1
    /\ UNCHANGED m_chat_calls
    /\ \E e \in DocErrors :
        /\ RecordDocError(e)
        /\ HandleUploadError(e)
    /\ UNCHANGED <<m_summaries, m_summary_calls, m_invalid_at, mconfig>>
    /\ UNCHANGED <<jvars, wvars, cvars, ovars>>

\* lines 136-142: chat_json_strict_with_repair returns or raises
UploadRepairDone ==
    /\ mpc = "upload_repair"
    /\ jpc \in {"ret", "raise"}
    /\ UNCHANGED <<m_doc_calls, m_chat_calls>>
    /\ IF jpc = "ret"
       THEN FinishUpload(result[1])
       ELSE HandleUploadError(ChatError(jerr))
    /\ jpc' = "idle"
    /\ UNCHANGED <<repair_retries, raw, bad, attempt, ncalls, result, jerr, last_err>>
    /\ fix_user' = <<>>
    /\ last_reply' = <<>>
    /\ UNCHANGED <<m_summaries, m_summary_calls, m_invalid_at, m_first_doc_error, mconfig>>
    /\ UNCHANGED <<wvars, cvars, ovars>>

\* lines 147-152
ChunkedEntry ==
    /\ mpc = "chunked_entry"
    /\ UNCHANGED <<m_doc_calls, m_chat_calls>>
    /\ IF raw_text_missing(raw_text_present)
       THEN MetaRaise(DocumentReadError)
       ELSE MetaGoto("summaries")
    /\ UNCHANGED <<m_summaries, m_summary_calls, m_invalid_at, m_first_doc_error, mconfig, m_transients>>
    /\ UNCHANGED <<jvars, wvars, cvars, ovars>>

\* the threshold chunk is early too
is_early_inclusive(idx, threshold) == idx <= threshold

\* lines 158-160: is_early = i < local_metadata_first_chunks_with_title_author_hint
is_early(idx, threshold) == idx < threshold

\* lines 155-163: the call for chunk i of the enumeration is issued
IssueSummaryCall ==
    m_summary_calls' =
        Append(m_summary_calls,
               [chunk |-> m_summaries,
                early |-> is_early(m_summaries, first_chunks_with_hint)])

\* lines 155-166: one chunk summary
SummaryCall ==
    /\ mpc = "summaries"
    /\ m_summaries < SummariesWanted
    /\ m_chat_calls' = m_chat_calls + 1
    /\ m_summaries' = m_summaries + 1
    /\ IssueSummaryCall
    /\ MetaGoto("summaries")
    /\ UNCHANGED <<m_doc_calls, m_invalid_at, m_first_doc_error, mconfig, m_transients>>
    /\ UNCHANGED <<jvars, wvars, cvars, ovars>>

\* line 163: provider.chat_text raises
SummaryError ==
    /\ mpc = "summaries"
    /\ m_summaries < SummariesWanted
    /\ m_chat_calls' = m_chat_calls + 1
    /\ \E ty \in {"LLMError", "TransientLLMError"} : MetaRaise(ChatError(ty))
    /\ IssueSummaryCall
    /\ UNCHANGED <<m_summaries, m_doc_calls, m_invalid_at, m_first_doc_error, mconfig, m_transients>>
    /\ UNCHANGED <<jvars, wvars, cvars, ovars>>

\* lines 168-177: the synthesis request
SynthBegin ==
    /\ mpc = "summaries"
    /\ m_summaries = SummariesWanted
    /\ MetaGoto("synthesis")
    /\ CallChatJson
    /\ UNCHANGED <<m_summaries, m_summary_calls, m_doc_calls, m_chat_calls, m_invalid_at,
                   m_first_doc_error, mconfig, m_transients>>
    /\ UNCHANGED <<wvars, cvars, ovars>>

\* lines 171-184
SynthDone ==
    /\ mpc = "synthesis"
    /\ jpc \in {"ret", "raise"}
    /\ IF jpc = "ret"
       THEN FinishChunked(result[1], m_reason)
       ELSE MetaRaise(ChatError(jerr))
    /\ jpc' = "idle"
    /\ UNCHANGED <<repair_retries, raw, bad, attempt, ncalls, result, jerr, last_err>>
    /\ fix_user' = <<>>
    /\ last_reply' = <<>>
    /\ UNCHANGED <<m_summaries, m_summary_calls, m_doc_calls, m_chat_calls, m_invalid_at,
                   m_first_doc_error, mconfig, m_transients>>
    /\ UNCHANGED <<wvars, cvars, ovars>>

MetaNext ==
    \/ MetaBegin
    \/ UploadSchemaCall
    \/ UploadSchemaError
    \/ UploadPlainCall
    \/ UploadPlainError
    \/ UploadRepairDone
    \/ ChunkedEntry
    \/ SummaryCall
    \/ SummaryError
    \/ SynthBegin
    \/ SynthDone
    \/ ChatFirstCall
    \/ ChatRepairCall
    \/ ChatExhausted
    \/ ChatProviderError

\* generate_metadata for every document, settings and target language
InitMeta ==
    /\ pc = "meta"
    /\ raw_text_present \in BOOLEAN
    /\ chunks_n = 0
    /\ meta_first = NoChapter
    /\ resume_state = <<>>
    /\ start_index = 0
    /\ i = 0
    /\ current_chapter = NoChapter
    /\ prev_tail = <<>>
    /\ tr = PyNone
    /\ pause = FALSE
    /\ prompt = NoPrompt
    /\ buf = <<>>
    /\ file = <<>>
    /\ ckpt = <<>>
    /\ other_ckpt = <<OtherState>>
    /\ resume_state_path = <<>>
    /\ state_path = <<>>
    /\ crashes = 0
    /\ runCalls = <<>>
    /\ runAppends = <<>>
    /\ lastDone = NoneDone
    /\ failedAt = -1
    /\ signals = <<>>
    /\ jpc = "idle"
    /\ repair_retries = 0
    /\ raw = <<>>
    /\ bad = <<>>
    /\ attempt = 0
    /\ ncalls = 0
    /\ result = <<>>
    /\ jerr = ""
    /\ last_err = 0
    /\ fix_user = <<>>
    /\ last_reply = <<>>
    /\ mpc = "begin"
    /\ m_stage = ""
    /\ file_path_present \in BOOLEAN
    /\ m_chunks_n \in 0..MaxMetaChunks
    /\ upload_retries \in 0..MaxUploadRetries
    /\ json_repair_retries \in 0..MaxJsonRepairRetries
    /\ max_chunk_summaries \in 0..MaxMetaChunks
    /\ first_chunks_with_hint \in 0..MaxEarlyChunks
    /\ m_retry = -1
    /\ m_summaries = 0
    /\ m_summary_calls = <<>>
    /\ m_reason = <<>>
    /\ m_result = <<>>
    /\ m_err = <<>>
    /\ target_language \in TargetLanguages
    /\ m_attempts = 0
    /\ m_doc_calls = 0
    /\ m_att_start = 0
    /\ m_invalid_at = 0
    /\ m_first_doc_error = <<>>
    /\ m_chat_calls = 0
    /\ m_chat_start = 0
    /\ m_transients = 0
    /\ ChunkOff
    /\ SaveOff
    /\ ResizeOff
    /\ PromptOff
    /\ LaterOff

SpecMeta == InitMeta /\ [][MetaNext]_vars

(***************************************************************************)
(* chunk_by_chars: one action per loop iteration.                          *)
(***************************************************************************)
MaxTextLen == 5
MaxChunkSize == 4

Chars == {"a", "b", " ", "\n", ".", "?"}

\* every text of length n over Chars
TextsOfLen(n) == [1..n -> Chars]
Texts == UNION {TextsOfLen(n) : n \in 0..MaxTextLen}

\* line 36
split_seps ==
    << <<"\n", "\n">>, <<"\n">>, <<".", " ">>, <<"?", " ">>, <<"!", " ">>,
       <<";", " ">>, <<":", " ">>, <<",", " ">>, <<" ">> >>

\* text[a:b] with 0-based offsets, 0 <= a <= b <= len(text)
Slice(t, a, b) == SubSeq(t, a + 1, b)

\* window.find(sep): the first offset at which sep occurs
rfind_first_offset(window, sep) ==
    LET ks == {k \in 0..(Len(window) - Len(sep)) :
                  SubSeq(window, k + 1, k + Len(sep)) = sep}
    IN  IF ks = {} THEN -1 ELSE SetMin(ks)

\* window.rfind(sep): the last 0-based offset at which sep occurs, else -1
rfind(window, sep) ==
    LET ks == {k \in 0..(Len(window) - Len(sep)) :
                  SubSeq(window, k + 1, k + Len(sep)) = sep}
    IN  IF ks = {} THEN -1 ELSE SetMax(ks)

\* the window is one character too long
window_end_one_past(at, size, n) == IF at + size + 1 < n THEN at + size + 1 ELSE n

\* line 39: j = min(i + chunk_size, n)
window_end(at, size, n) == IF at + size < n THEN at + size ELSE n

\* lines 49-59: where the window starting at offset `at` and ending at j is cut
split_point(t, at, j) ==
    LET window == Slice(t, at, j)
        found == {s \in 1..Len(split_seps) : rfind(window, split_seps[s]) # -1}
    IN  IF found = {} THEN j
        ELSE LET sep == split_seps[SetMin(found)]
                 at_sep == at + rfind(window, sep) + Len(sep)
             IN  IF at_sep <= at THEN j ELSE at_sep

\* the next window starts one character after the cut
next_i_skips_one(split_at) == split_at + 1

\* line 65: i = split_at
next_i(split_at) == split_at

\* chunks.append(chunk) if chunk
AppendIfAny(cs, chunk) == IF chunk # <<>> THEN Append(cs, chunk) ELSE cs

\* line 29: [text[i : i + chunk_size] for i in range(0, len(text), chunk_size)]
HardChunks(t, size) ==
    LET n == Len(t)
        count == (n + size - 1) \div size
    IN  [k \in 1..count |->
            Slice(t, (k - 1) * size, IF k * size < n THEN k * size ELSE n)]

\* the empty text is answered before chunk_size is validated
entry_check_empty_first(t, size) ==
    IF t = <<>> THEN "empty" ELSE IF size <= 0 THEN "ValueError" ELSE "split"

\* lines 22-26: if chunk_size <= 0: raise ValueError; if not text: return []
entry_check(t, size) ==
    IF size <= 0 THEN "ValueError" ELSE IF t = <<>> THEN "empty" ELSE "split"

\* lines 22-33
ChunkStart ==
    /\ cpc = "start"
    /\ IF entry_check(c_text, chunk_size) = "ValueError"
       THEN cpc' = "ValueError" /\ UNCHANGED chunks
       ELSE IF entry_check(c_text, chunk_size) = "empty"
       THEN cpc' = "done" /\ chunks' = <<>>
       ELSE IF ~soft_split
       THEN cpc' = "done" /\ chunks' = HardChunks(c_text, chunk_size)
       ELSE cpc' = "loop" /\ chunks' = <<>>
    /\ c_i' = 0
    /\ UNCHANGED <<c_text, chunk_size, soft_split>>
    /\ UNCHANGED <<wvars, jvars, mvars, ovars>>

\* lines 38-67: one test of the loop condition and one iteration
ChunkStep ==
    /\ cpc = "loop"
    /\ LET n == Len(c_text)
           j == window_end(c_i, chunk_size, n)
       IN  IF ~(c_i < n)
           THEN cpc' = "done" /\ UNCHANGED <<c_i, chunks>>
           ELSE IF j >= n
           THEN /\ chunks' = AppendIfAny(chunks, StripChars(Slice(c_text, c_i, n)))
                /\ cpc' = "done"
                /\ UNCHANGED c_i
           ELSE LET split_at == split_point(c_text, c_i, j)
                IN  /\ chunks' = AppendIfAny(chunks, StripChars(Slice(c_text, c_i, split_at)))
                    /\ c_i' = next_i(split_at)
                    /\ cpc' = "loop"
    /\ UNCHANGED <<c_text, chunk_size, soft_split>>
    /\ UNCHANGED <<wvars, jvars, mvars, ovars>>

ChunkNext == ChunkStart \/ ChunkStep

\* chunk_by_chars for every text, chunk_size and mode
InitChunk ==
    /\ pc = "chunk"
    /\ raw_text_present = TRUE
    /\ chunks_n = 0
    /\ meta_first = NoChapter
    /\ resume_state = <<>>
    /\ start_index = 0
    /\ i = 0
    /\ current_chapter = NoChapter
    /\ prev_tail = <<>>
    /\ tr = PyNone
    /\ pause = FALSE
    /\ prompt = NoPrompt
    /\ buf = <<>>
    /\ file = <<>>
    /\ ckpt = <<>>
    /\ other_ckpt = <<OtherState>>
    /\ resume_state_path = <<>>
    /\ state_path = <<>>
    /\ crashes = 0
    /\ runCalls = <<>>
    /\ runAppends = <<>>
    /\ lastDone = NoneDone
    /\ failedAt = -1
    /\ signals = <<>>
    /\ jpc = "idle"
    /\ repair_retries = 0
    /\ raw = <<>>
    /\ bad = <<>>
    /\ attempt = 0
    /\ ncalls = 0
    /\ result = <<>>
    /\ jerr = ""
    /\ last_err = 0
    /\ fix_user = <<>>
    /\ last_reply = <<>>
    /\ MetaOff
    /\ cpc = "start"
    /\ c_text \in Texts
    /\ chunk_size \in (-1)..MaxChunkSize
    /\ soft_split \in BOOLEAN
    /\ c_i = 0
    /\ chunks = <<>>
    /\ SaveOff
    /\ ResizeOff
    /\ PromptOff
    /\ LaterOff

SpecChunk == InitChunk /\ [][ChunkNext]_vars

(***************************************************************************)
(* save_state step by step: write_text to the temporary file, replace,     *)
(* and a crash of the process at any point in between.                     *)
(***************************************************************************)
MaxSaves == 2

\* the parts of a file name that are dotted extensions
DottedParts == {".json", ".tmp"}

\* Path.with_suffix: the last extension, if there is one, is replaced
with_suffix(path, parts) ==
    IF path # <<>> /\ path[Len(path)] \in DottedParts
    THEN SubSeq(path, 1, Len(path) - 1) \o parts
    ELSE path \o parts

\* the new text is written over the checkpoint file itself
tmp_path_in_place(path) == path

\* line 54: tmp = path.with_suffix(".json.tmp")
tmp_path(path) == with_suffix(path, <<".json", ".tmp">>)

\* the files save_state(OwnPath, ...) touches, sorted by name
SavePathSeq ==
    IF tmp_path(OwnPath) = OwnPath THEN <<OwnPath>> ELSE <<OwnPath, tmp_path(OwnPath)>>

SavePaths == {SavePathSeq[k] : k \in 1..Len(SavePathSeq)}

\* the text of a file whose write was cut short
PartialText(obj) == [complete |-> FALSE, obj |-> obj]

\* the sorted listing of the state directory
RECURSIVE ListDir(_, _)
ListDir(f, paths) ==
    IF paths = <<>> THEN <<>>
    ELSE LET p == Head(paths)
         IN  (IF f[p] = <<>> THEN <<>> ELSE <<[path |-> p, text |-> f[p][1]]>>)
             \o ListDir(f, Tail(paths))

SaveDir == ListDir(fs, SavePathSeq)

SaveObjs == {StateObj(k, NoChapter, <<>>) : k \in 0..MaxSaves}

\* save_state(path, obj) is called
SaveBegin ==
    /\ spc = "idle"
    /\ \E obj \in SaveObjs : s_obj' = <<obj>>
    /\ s_prev' = fs[OwnPath]
    /\ s_found' = <<>>
    /\ spc' = "open"
    /\ UNCHANGED fs
    /\ UNCHANGED <<wvars, jvars, mvars, cvars, rvars, pvars, xvars>>

\* line 55, tmp.write_text: the file is created or truncated and a part of
\* the text has reached it
TmpWriteOpen ==
    /\ spc = "open"
    /\ fs' = [fs EXCEPT ![tmp_path(OwnPath)] = <<PartialText(s_obj[1])>>]
    /\ spc' = "writing"
    /\ UNCHANGED <<s_obj, s_prev, s_found>>
    /\ UNCHANGED <<wvars, jvars, mvars, cvars, rvars, pvars, xvars>>

\* line 55, tmp.write_text returns: the whole text is in the file
TmpWriteClose ==
    /\ spc = "writing"
    /\ fs' = [fs EXCEPT ![tmp_path(OwnPath)] = <<FullText(s_obj[1])>>]
    /\ spc' = "written"
    /\ UNCHANGED <<s_obj, s_prev, s_found>>
    /\ UNCHANGED <<wvars, jvars, mvars, cvars, rvars, pvars, xvars>>

\* line 56, tmp.replace(path): one atomic rename
TmpReplace ==
    /\ spc = "written"
    /\ fs' = [fs EXCEPT ![tmp_path(OwnPath)] = <<>>, ![OwnPath] = fs[tmp_path(OwnPath)]]
    /\ spc' = "idle"
    /\ UNCHANGED <<s_obj, s_prev, s_found>>
    /\ UNCHANGED <<wvars, jvars, mvars, cvars, rvars, pvars, xvars>>

\* the process dies inside save_state
SaveCrash ==
    /\ spc \in {"open", "writing", "written"}
    /\ spc' = "crashed"
    /\ UNCHANGED <<fs, s_obj, s_prev, s_found>>
    /\ UNCHANGED <<wvars, jvars, mvars, cvars, rvars, pvars, xvars>>

\* the application is started again and looks the document up
SaveRecover ==
    /\ spc = "crashed"
    /\ s_found' = <<find_state_by_hash(SaveDir, DocHash)>>
    /\ spc' = "idle"
    /\ UNCHANGED <<fs, s_obj, s_prev>>
    /\ UNCHANGED <<wvars, jvars, mvars, cvars, rvars, pvars, xvars>>

SaveNext ==
    \/ SaveBegin
    \/ TmpWriteOpen
    \/ TmpWriteClose
    \/ TmpReplace
    \/ SaveCrash
    \/ SaveRecover

InitSave ==
    /\ pc = "persist"
    /\ raw_text_present = TRUE
    /\ chunks_n = 0
    /\ meta_first = NoChapter
    /\ resume_state = <<>>
    /\ start_index = 0
    /\ i = 0
    /\ current_chapter = NoChapter
    /\ prev_tail = <<>>
    /\ tr = PyNone
    /\ pause = FALSE
    /\ prompt = NoPrompt
    /\ buf = <<>>
    /\ file = <<>>
    /\ ckpt = <<>>
    /\ other_ckpt = <<OtherState>>
    /\ resume_state_path = <<>>
    /\ state_path = <<>>
    /\ crashes = 0
    /\ runCalls = <<>>
    /\ runAppends = <<>>
    /\ lastDone = NoneDone
    /\ failedAt = -1
    /\ signals = <<>>
    /\ jpc = "idle"
    /\ repair_retries = WORKER_REPAIR_RETRIES
    /\ raw = <<>>
    /\ bad = <<>>
    /\ attempt = 0
    /\ ncalls = 0
    /\ result = <<>>
    /\ jerr = ""
    /\ last_err = 0
    /\ fix_user = <<>>
    /\ last_reply = <<>>
    /\ MetaOff
    /\ ChunkOff
    /\ ResizeOff
    /\ PromptOff
    /\ LaterOff
    /\ spc = "idle"
    /\ fs \in [SavePaths -> {<<>>}]
    /\ s_obj = <<>>
    /\ s_prev = <<>>
    /\ s_found = <<>>

SpecSave == InitSave /\ [][SaveNext]_vars

(***************************************************************************)
(* A translation interrupted and resumed in a session whose chunk size is  *)
(* chosen anew: run() chunks the text again and adopts the stored index.   *)
(***************************************************************************)
\* lines 36-67 of chunk_by_chars as a function: the loop of ChunkStep
RECURSIVE soft_chunks(_, _, _, _)
soft_chunks(t, size, at, acc) ==
    LET n == Len(t)
        j == window_end(at, size, n)
    IN  IF ~(at < n) THEN acc
        ELSE IF j >= n THEN AppendIfAny(acc, StripChars(Slice(t, at, n)))
        ELSE LET split_at == split_point(t, at, j)
             IN  soft_chunks(t, size, next_i(split_at),
                             AppendIfAny(acc, StripChars(Slice(t, at, split_at))))

\* chunk_by_chars(text, chunk_size) for chunk_size > 0, soft_split defaulted
chunk_by_chars(t, size) == IF t = <<>> THEN <<>> ELSE soft_chunks(t, size, 0, <<>>)

\* the fields of the checkpoint that matter for resuming
ResizeState(idx, size) ==
    [document_hash |-> DocHash,
     current_chunk_index |-> idx,
     translation_chunk_chars |-> size]

\* run(), lines 90-94 and 149-157: chunk the text with the session's chunk
\* size, adopt the stored index of a checkpoint whose hash matches
ResizeRunBegin ==
    /\ rpc = "new"
    /\ r_chunks' = chunk_by_chars(r_text, r_size)
    /\ IF r_ckpt # <<>> /\ r_ckpt[1].document_hash = DocHash
       THEN r_start' = resume_start_index(r_ckpt[1]) /\ rpc' = "resumed"
       ELSE r_start' = 0 /\ rpc' = "running"
    /\ UNCHANGED <<r_text, r_size, r_ckpt, r_prev_chunks>>
    /\ UNCHANGED <<wvars, jvars, mvars, cvars, svars, pvars, xvars>>

\* run(), lines 241-254: the run stops with a checkpoint that names the next
\* chunk to translate
ResizeInterrupt ==
    /\ rpc = "running"
    /\ \E k \in 0..(Len(r_chunks) - 1) : r_ckpt' = <<ResizeState(k, r_size)>>
    /\ r_prev_chunks' = r_chunks
    /\ rpc' = "interrupted"
    /\ UNCHANGED <<r_text, r_size, r_chunks, r_start>>
    /\ UNCHANGED <<wvars, jvars, mvars, cvars, svars, pvars, xvars>>

\* ModelSetupPage._settings_with_optional_override: the next session takes
\* the default chunk size or the one typed in
ResizeNewSession ==
    /\ rpc = "interrupted"
    /\ r_size' \in 1..MaxChunkSize
    /\ r_chunks' = <<>>
    /\ r_start' = 0
    /\ rpc' = "new"
    /\ UNCHANGED <<r_text, r_ckpt, r_prev_chunks>>
    /\ UNCHANGED <<wvars, jvars, mvars, cvars, svars, pvars, xvars>>

ResizeNext == ResizeRunBegin \/ ResizeInterrupt \/ ResizeNewSession

InitResize ==
    /\ pc = "resize"
    /\ raw_text_present = TRUE
    /\ chunks_n = 0
    /\ meta_first = NoChapter
    /\ resume_state = <<>>
    /\ start_index = 0
    /\ i = 0
    /\ current_chapter = NoChapter
    /\ prev_tail = <<>>
    /\ tr = PyNone
    /\ pause = FALSE
    /\ prompt = NoPrompt
    /\ buf = <<>>
    /\ file = <<>>
    /\ ckpt = <<>>
    /\ other_ckpt = <<OtherState>>
    /\ resume_state_path = <<>>
    /\ state_path = <<>>
    /\ crashes = 0
    /\ runCalls = <<>>
    /\ runAppends = <<>>
    /\ lastDone = NoneDone
    /\ failedAt = -1
    /\ signals = <<>>
    /\ jpc = "idle"
    /\ repair_retries = WORKER_REPAIR_RETRIES
    /\ raw = <<>>
    /\ bad = <<>>
    /\ attempt = 0
    /\ ncalls = 0
    /\ result = <<>>
    /\ jerr = ""
    /\ last_err = 0
    /\ fix_user = <<>>
    /\ last_reply = <<>>
    /\ MetaOff
    /\ ChunkOff
    /\ SaveOff
    /\ PromptOff
    /\ LaterOff
    /\ rpc = "new"
    /\ r_text \in Texts
    /\ r_size \in 1..MaxChunkSize
    /\ r_chunks = <<>>
    /\ r_ckpt = <<>>
    /\ r_start = 0
    /\ r_prev_chunks = <<>>

SpecResize == InitResize /\ [][ResizeNext]_vars

(***************************************************************************)
(* The chapter context of the translation user prompt: run() builds the    *)
(* optional context once and the prompt for every chunk.                   *)
(***************************************************************************)
MaxChapters == 2

\* chapter names; "1" is not "C1"
ChapterKeys == {<<"1">>, <<"C", "1">>, <<"C", "2">>}

\* one entry of the chapters map: its key and its {general, detailed} pair
ChapterEntry(k) == [key |-> k, general |-> <<"g">> \o k, detailed |-> <<"d">> \o k]

\* the chapters maps: dicts keep insertion order and have distinct keys
ChapterMaps ==
    UNION {{[j \in 1..n |-> ChapterEntry(ks[j])] :
               ks \in {q \in [1..n -> ChapterKeys] :
                          \A a, b \in 1..n : a # b => q[a] # q[b]}} :
           n \in 0..MaxChapters}

\* what meta.get("chapters") can be: the sentinel string or a dict
MetaChapters ==
    {[ty |-> "str", s |-> NOT_PROVIDED, entries |-> <<>>]}
    \cup {[ty |-> "dict", s |-> <<>>, entries |-> m] : m \in ChapterMaps}

\* only strings get into the context
context_value_kept_strings_only(val) ==
    val.ty = "str" /\ val.s # <<>> /\ val.s # NOT_PROVIDED

\* line 119: if val and val != "not provided"
context_value_kept(val) ==
    IF val.ty = "str" THEN val.s # <<>> /\ val.s # NOT_PROVIDED
    ELSE val.entries # <<>>

\* one line of the prompt, "- <key> - <summary>": the detailed summary for
\* the chapter whose key is current_chapter, the general one otherwise
chapter_line(entry, current) ==
    [key |-> entry.key,
     summary |-> IF current.some /\ current.v = entry.key
                 THEN entry.detailed ELSE entry.general]

\* the chapter lines of build_translation_user_prompt(current_chapter, context)
build_translation_user_prompt(current, ctx) ==
    IF ctx = <<>> THEN <<>>
    ELSE [j \in 1..Len(ctx[1]) |-> chapter_line(ctx[1][j], current)]

\* the "chapter" field of a chunk reply
ReplyChapters ==
    {PyNone, PyStr(<<>>)} \cup {PyStr(k) : k \in ChapterKeys}
    \cup {PyStr(<<" ">> \o k) : k \in ChapterKeys}

\* run(), lines 115-120: the optional context
PromptContext ==
    /\ ppc = "meta"
    /\ p_ctx' = IF context_value_kept(p_chapters) THEN <<p_chapters.entries>> ELSE <<>>
    /\ ppc' = "loop"
    /\ UNCHANGED <<p_chapters, p_current, p_prompt>>
    /\ UNCHANGED <<wvars, jvars, mvars, cvars, svars, rvars, xvars>>

\* run(), lines 207-213: the user prompt of the next chunk
PromptBuild ==
    /\ ppc = "loop"
    /\ p_prompt' = build_translation_user_prompt(p_current, p_ctx)
    /\ ppc' = "built"
    /\ UNCHANGED <<p_chapters, p_ctx, p_current>>
    /\ UNCHANGED <<wvars, jvars, mvars, cvars, svars, rvars, xvars>>

\* run(), lines 222-231: the reply's chapter is carried forward
PromptChapterReply ==
    /\ ppc = "built"
    /\ \E ch \in ReplyChapters :
        p_current' = IF ch.ty = "str" /\ Strip(ch.v, " ") # <<>>
                     THEN SomeChapter(Strip(ch.v, " "))
                     ELSE p_current
    /\ p_prompt' = <<>>
    /\ ppc' = "loop"
    /\ UNCHANGED <<p_chapters, p_ctx>>
    /\ UNCHANGED <<wvars, jvars, mvars, cvars, svars, rvars, xvars>>

PromptNext == PromptContext \/ PromptBuild \/ PromptChapterReply

InitPrompt ==
    /\ pc = "prompt"
    /\ raw_text_present = TRUE
    /\ chunks_n = 0
    /\ meta_first = NoChapter
    /\ resume_state = <<>>
    /\ start_index = 0
    /\ i = 0
    /\ current_chapter = NoChapter
    /\ prev_tail = <<>>
    /\ tr = PyNone
    /\ pause = FALSE
    /\ prompt = NoPrompt
    /\ buf = <<>>
    /\ file = <<>>
    /\ ckpt = <<>>
    /\ other_ckpt = <<OtherState>>
    /\ resume_state_path = <<>>
    /\ state_path = <<>>
    /\ crashes = 0
    /\ runCalls = <<>>
    /\ runAppends = <<>>
    /\ lastDone = NoneDone
    /\ failedAt = -1
    /\ signals = <<>>
    /\ jpc = "idle"
    /\ repair_retries = WORKER_REPAIR_RETRIES
    /\ raw = <<>>
    /\ bad = <<>>
    /\ attempt = 0
    /\ ncalls = 0
    /\ result = <<>>
    /\ jerr = ""
    /\ last_err = 0
    /\ fix_user = <<>>
    /\ last_reply = <<>>
    /\ MetaOff
    /\ ChunkOff
    /\ SaveOff
    /\ ResizeOff
    /\ LaterOff
    /\ ppc = "meta"
    /\ p_chapters \in MetaChapters
    /\ p_ctx = <<>>
    /\ p_current \in {NoChapter} \cup {SomeChapter(k) : k \in ChapterKeys}
    /\ p_prompt = <<>>

SpecPrompt == InitPrompt /\ [][PromptNext]_vars

(***************************************************************************)
(* The metadata object between parsing and use: _upload_metadata and       *)
(* _chunked_fallback hand the parsed reply to normalize_not_provided and    *)
(* then to validate_metadata_json.                                          *)
(***************************************************************************)
MaxAuthors == 2

\* the worker and the strict-JSON protocol at rest
FrozenWorker(p) ==
    /\ pc = p
    /\ raw_text_present = TRUE
    /\ chunks_n = 0
    /\ meta_first = NoChapter
    /\ resume_state = <<>>
    /\ start_index = 0
    /\ i = 0
    /\ current_chapter = NoChapter
    /\ prev_tail = <<>>
    /\ tr = PyNone
    /\ pause = FALSE
    /\ prompt = NoPrompt
    /\ buf = <<>>
    /\ file = <<>>
    /\ ckpt = <<>>
    /\ other_ckpt = <<OtherState>>
    /\ resume_state_path = <<>>
    /\ state_path = <<>>
    /\ crashes = 0
    /\ runCalls = <<>>
    /\ runAppends = <<>>
    /\ lastDone = NoneDone
    /\ failedAt = -1
    /\ signals = <<>>
    /\ jpc = "idle"
    /\ repair_retries = WORKER_REPAIR_RETRIES
    /\ raw = <<>>
    /\ bad = <<>>
    /\ attempt = 0
    /\ ncalls = 0
    /\ result = <<>>
    /\ jerr = ""
    /\ last_err = 0
    /\ fix_user = <<>>
    /\ last_reply = <<>>

\* the key is not in the object
Absent == [ty |-> "absent", v |-> <<>>]

\* what a provider may put under a string-valued key
ScalarValues ==
    {Absent, PyNone, PyStr(<<>>), PyStr(<<" ">>), PyStr(<<" ", "\n">>), PyStr(<<"a">>)}

\* under "author(s)": also a list of names, some of them blank
AuthorLists == UNION {[1..n -> {"a", " "}] : n \in 0..MaxAuthors}
AuthorValues == ScalarValues \cup {PyList(l) : l \in AuthorLists}

\* under "chapters": also a string and an object of up to MaxChapters entries
ChapterShapes == {"pair", "str", "general_only", "num_pair"}
ChapterDicts == UNION {[1..n -> ChapterShapes] : n \in 0..MaxChapters}
ChaptersValues ==
    ScalarValues \cup {PyStr(NOT_PROVIDED), PyStr(<<"N", "o", "t", " ", "P", "r", "o", "v", "i", "d", "e", "d">>)}
                 \cup {PyDict(d) : d \in ChapterDicts}

\* the object with the keys of f that are not Absent
DictOfValues(f) == [k \in {k \in DOMAIN f : f[k] # Absent} |-> f[k]]

\* metadata_service.py lines 78-92, METADATA_SCHEMA: no additional
\* properties, all five keys required, four strings, and "chapters" an
\* object whose values are strings
conforms_to_METADATA_SCHEMA(obj) ==
    /\ DOMAIN obj = RequiredKeySet
    /\ \A k \in {"author(s)", "title", "language", "summary"} : obj[k].ty = "str"
    /\ obj["chapters"].ty = "dict"
    /\ \A j \in 1..Len(obj["chapters"].v) : obj["chapters"].v[j] = "str"

\* metadata_service.py lines 41, 55, 179: meta = normalize_not_provided(meta)
NormalizeCall ==
    /\ npc = "parsed"
    /\ n_out' = normalize_not_provided(n_obj)
    /\ npc' = "normalized"
    /\ UNCHANGED <<n_obj, n_valid>>
    /\ UNCHANGED <<wvars, jvars, mvars, cvars, svars, rvars, pvars, kvars>>

\* metadata_service.py lines 42, 56, 180: validate_metadata_json(meta)
ValidateCall ==
    /\ npc = "normalized"
    /\ n_valid' = <<validate_metadata_json(n_out)>>
    /\ npc' = "validated"
    /\ UNCHANGED <<n_obj, n_out>>
    /\ UNCHANGED <<wvars, jvars, mvars, cvars, svars, rvars, pvars, kvars>>

NormNext ==
    \/ NormalizeCall
    \/ ValidateCall

InitNorm ==
    /\ FrozenWorker("norm")
    /\ MetaOff
    /\ ChunkOff
    /\ SaveOff
    /\ ResizeOff
    /\ PromptOff
    /\ CacheOff
    /\ npc = "parsed"
    /\ \E a \in AuthorValues, t \in ScalarValues, l \in {Absent, PyStr(<<>>), PyStr(<<"a">>)},
          su \in {PyNone, PyStr(<<" ">>), PyStr(<<"a">>)}, c \in ChaptersValues :
          n_obj = DictOfValues([k \in RequiredKeySet |->
                      IF k = "author(s)" THEN a
                      ELSE IF k = "title" THEN t
                      ELSE IF k = "language" THEN l
                      ELSE IF k = "summary" THEN su
                      ELSE c])
    /\ n_out = EmptyDict
    /\ n_valid = <<>>

SpecNorm == InitNorm /\ [][NormNext]_vars

(***************************************************************************)
(* The metadata cache directory (metadata_cache.py), the metadata source   *)
(* of run() and the route AppWindow._on_document_ready takes.  A metadata   *)
(* dict is <<>> when empty, <<n>> when it is the n-th one saved and <<0>>    *)
(* when it is the one the caller holds in memory.                          *)
(***************************************************************************)
MaxCacheOps == 3

TitleHints == {<<>>, <<"a">>, <<"a", "!">>, <<" ">>}

\* re.sub(r"\s+", " ", name)
RECURSIVE CollapseSpaces(_)
CollapseSpaces(name) ==
    IF Len(name) < 2 THEN name
    ELSE IF name[1] = " " /\ name[2] = " " THEN CollapseSpaces(Tail(name))
    ELSE <<name[1]>> \o CollapseSpaces(Tail(name))

\* lines 17-24: _slugify; max_len = 80 is beyond the names used here
slugify(name) ==
    LET stripped == StripChars(name)
        kept == SelectSeq(CollapseSpaces(stripped), LAMBDA c : c # "!")
        trimmed == StripChars(kept)
        under == [j \in 1..Len(trimmed) |-> IF trimmed[j] = " " THEN "_" ELSE trimmed[j]]
    IN  IF stripped = <<>> \/ under = <<>> THEN <<"untitled">> ELSE under

\* lines 36-40: {slug}.{document_hash}.metadata_cache.json
cache_path_for(document_hash, title_hint) ==
    [slug |-> IF title_hint # <<>> THEN slugify(title_hint) ELSE <<"metadata">>,
     hash |-> document_hash]

\* d.glob("*.{hash}.metadata_cache.json")
glob_cache(dir, document_hash) == {f \in dir : f.path.hash = document_hash}

\* a cache file json.load and MetadataCacheRecord accept
CacheRecord(metadata) == [ok |-> TRUE, metadata |-> metadata]
\* a cache file load_metadata_cache raises on
BrokenRecord == [ok |-> FALSE, metadata |-> <<>>]

\* lines 58-74: the file at p holds rec afterwards
write_cache(dir, p, rec) == {f \in dir : f.path # p} \cup {[path |-> p, rec |-> rec]}

HashKey(h) == IF h = DocHash THEN "own" ELSE "other"

\* lines 43-75
save_metadata_cache ==
    /\ kpc = "ops"
    /\ k_ops < MaxCacheOps
    /\ \E h \in {DocHash, OtherHash}, hint \in TitleHints :
          /\ k_dir' = write_cache(k_dir, cache_path_for(h, hint), CacheRecord(<<k_ops + 1>>))
          /\ k_last' = [k_last EXCEPT ![HashKey(h)] = << <<k_ops + 1>> >>]
    /\ k_ops' = k_ops + 1
    /\ UNCHANGED <<kpc, k_found, k_memory, k_meta, k_hit,
                   a_states, a_doc, a_route, a_strategy, a_resumed>>
    /\ UNCHANGED <<wvars, jvars, mvars, cvars, svars, rvars, pvars, nvars>>

\* lines 109-116
delete_metadata_cache_for_hash ==
    /\ kpc = "ops"
    /\ k_ops < MaxCacheOps
    /\ \E h \in {DocHash, OtherHash} :
          /\ k_dir' = k_dir \ glob_cache(k_dir, h)
          /\ k_last' = [k_last EXCEPT ![HashKey(h)] = <<>>]
    /\ k_ops' = k_ops + 1
    /\ UNCHANGED <<kpc, k_found, k_memory, k_meta, k_hit,
                   a_states, a_doc, a_route, a_strategy, a_resumed>>
    /\ UNCHANGED <<wvars, jvars, mvars, cvars, svars, rvars, pvars, nvars>>

\* lines 78-106: find_metadata_cache_by_hash returns the first path the glob
\* yields, in whatever order the directory is listed; load_metadata_cache
CacheLookup ==
    /\ kpc = "ops"
    /\ \E h \in {DocHash, OtherHash} :
          IF glob_cache(k_dir, h) = {}
          THEN /\ k_found' = [hash |-> h, meta |-> <<>>, raised |-> FALSE]
               /\ k_hit' = <<>>
          ELSE \E f \in glob_cache(k_dir, h) :
                  /\ k_hit' = <<f.path>>
                  /\ k_found' = IF f.rec.ok
                                THEN [hash |-> h, meta |-> <<f.rec.metadata>>, raised |-> FALSE]
                                ELSE [hash |-> h, meta |-> <<>>, raised |-> TRUE]
    /\ kpc' = "looked"
    /\ UNCHANGED <<k_dir, k_ops, k_last, k_memory, k_meta,
                   a_states, a_doc, a_route, a_strategy, a_resumed>>
    /\ UNCHANGED <<wvars, jvars, mvars, cvars, svars, rvars, pvars, nvars>>

\* the in-memory metadata wins whenever the caller has some
resolve_meta_memory_first(hit, memory) ==
    IF memory # <<>> THEN memory
    ELSE IF hit # <<>> /\ hit[1].ok THEN hit[1].metadata ELSE memory

\* translation_worker.py lines 101-113: hit is <<>> when no path was found,
\* else <<the file's content>>
resolve_meta(hit, memory) ==
    IF hit = <<>> THEN memory
    ELSE IF ~hit[1].ok THEN memory
    ELSE IF hit[1].metadata # <<>> THEN hit[1].metadata
    ELSE <<>>

\* translation_worker.py lines 101-113: run() resolves its metadata source
RunResolveMeta ==
    /\ kpc = "ops"
    /\ IF glob_cache(k_dir, DocHash) = {}
       THEN /\ k_hit' = <<>>
            /\ k_meta' = <<resolve_meta(<<>>, k_memory)>>
       ELSE \E f \in glob_cache(k_dir, DocHash) :
               /\ k_hit' = <<f.path>>
               /\ k_meta' = <<resolve_meta(<<f.rec>>, k_memory)>>
    /\ kpc' = "resolved"
    /\ UNCHANGED <<k_dir, k_ops, k_last, k_found, k_memory,
                   a_states, a_doc, a_route, a_strategy, a_resumed>>
    /\ UNCHANGED <<wvars, jvars, mvars, cvars, svars, rvars, pvars, nvars>>

\* a checkpoint as run() writes it, with its metadata_path
AppState(doc_hash, metadata_path) ==
    [document_hash |-> doc_hash,
     current_chunk_index |-> 1,
     current_chapter |-> <<>>,
     last_translation_tail |-> <<"x">>,
     metadata_path |-> metadata_path]

\* the state directories a document selection can meet: no checkpoint, the
\* one of another document, the one of this document (alone or not, with or
\* without a metadata_path), and a checkpoint of this document cut short
AppStateDirs ==
    LET other == [path |-> OtherPath, text |-> FullText(AppState(OtherHash, <<>>))]
        own(mp) == [path |-> OwnPath, text |-> FullText(AppState(DocHash, mp))]
        cut == [path |-> OwnPath,
                text |-> [complete |-> FALSE, obj |-> AppState(DocHash, <<>>)]]
    IN  { <<>>, <<other>>, <<own(<<>>)>>, <<other, own(<<cache_path_for(DocHash, <<>>)>>)>>,
          <<other, cut>> }

\* what the user selected: pasted text, or a file at some path whose text
\* is read (lines 129-135): the text, no text at all, or an exception
AppDocs ==
    { [file_path |-> <<>>, raw_text |-> <<"x">>, read |-> <<>>] }
    \cup { [file_path |-> <<fp>>, raw_text |-> <<>>, read |-> r] :
               fp \in {"p1", "p2"}, r \in {<<"x">>, <<"">>, <<>>} }

\* lines 129-146: doc_hash stays None unless doc.raw_text is a non-empty string
app_doc_hash(doc) ==
    LET raw_text == IF doc.raw_text # <<>> THEN doc.raw_text ELSE doc.read
    IN  IF raw_text # <<>> /\ raw_text[1] # "" THEN <<DocHash>> ELSE <<>>

\* the checkpoint is not consulted
app_route_without_resume(state_found, cache_hit) ==
    IF cache_hit # <<>> /\ cache_hit[1].ok THEN "cached_metadata" ELSE "generate"

\* lines 148-202: 1) translation state, 2) metadata cache, 3) generation
app_route(state_found, cache_hit) ==
    IF state_found THEN "resume"
    ELSE IF cache_hit # <<>> /\ cache_hit[1].ok THEN "cached_metadata"
    ELSE "generate"

\* lines 158-176: metadata_result of a resumed translation
resume_strategy(st, dir) ==
    IF st.metadata_path # <<>>
       /\ \E f \in dir : f.path = st.metadata_path[1] /\ f.rec.ok /\ f.rec.metadata # <<>>
    THEN "resume" ELSE ""

\* AppWindow._on_document_ready, lines 118-202
DocumentReady ==
    /\ kpc = "ops"
    /\ \E doc \in AppDocs :
          LET doc_hash == app_doc_hash(doc)
              found == find_state_by_hash(a_states, DocHash)
              hits == glob_cache(k_dir, DocHash)
              Decide(cache_hit) ==
                  LET route == IF doc_hash = <<>> THEN "generate"
                               ELSE app_route(found.some, cache_hit)
                  IN  /\ a_route' = IF route = "generate" THEN "metadata" ELSE "translate"
                      /\ a_resumed' = (route = "resume")
                      /\ a_strategy' = IF route = "resume" THEN resume_strategy(found.obj, k_dir)
                                       ELSE IF route = "cached_metadata" THEN route
                                       ELSE ""
          IN  /\ a_doc' = doc
              /\ IF doc_hash = <<>> \/ found.some \/ hits = {}
                 THEN k_hit' = <<>> /\ Decide(<<>>)
                 ELSE \E f \in hits : k_hit' = <<f.path>> /\ Decide(<<f.rec>>)
    /\ kpc' = "decided"
    /\ UNCHANGED <<k_dir, k_ops, k_last, k_found, k_memory, k_meta, a_states>>
    /\ UNCHANGED <<wvars, jvars, mvars, cvars, svars, rvars, pvars, nvars>>

CacheNext ==
    \/ save_metadata_cache
    \/ delete_metadata_cache_for_hash
    \/ CacheLookup
    \/ RunResolveMeta
    \/ DocumentReady

\* the cache directory is empty, or holds for this document a file that
\* cannot be loaded or a record saved earlier with empty metadata
InitCache ==
    /\ FrozenWorker("cache")
    /\ MetaOff
    /\ ChunkOff
    /\ SaveOff
    /\ ResizeOff
    /\ PromptOff
    /\ NormOff
    /\ kpc = "ops"
    /\ \E first \in {<<>>, <<BrokenRecord>>, <<CacheRecord(<<>>)>>} :
          /\ k_dir = IF first = <<>> THEN {}
                     ELSE {[path |-> cache_path_for(DocHash, <<>>), rec |-> first[1]]}
          /\ k_last = [own |-> IF first # <<>> /\ first[1].ok THEN <<first[1].metadata>> ELSE <<>>,
                       other |-> <<>>]
    /\ k_ops = 0
    /\ k_found = NoLookup
    /\ k_memory \in {<<>>, <<0>>}
    /\ k_meta = <<>>
    /\ k_hit = <<>>
    /\ a_states \in AppStateDirs
    /\ a_doc = NoDoc
    /\ a_route = ""
    /\ a_strategy = ""
    /\ a_resumed = FALSE

SpecCache == InitCache /\ [][CacheNext]_vars

(***************************************************************************)
(* Properties.                                                             *)
(***************************************************************************)
IsTr(e) == e.kind = "tr"

\* chunk indices of the translation lines of an output file, in file order
TrChunks(f) ==
    LET lines == SelectSeq(f, IsTr)
    IN  [j \in 1..Len(lines) |-> lines[j].chunk]

\* the sequence from, from + 1, ..., from + len - 1
Consecutive(q, from) == \A j \in 1..Len(q) : q[j] = from + j - 1

Resumed == resume_state # <<>> /\ resume_state[1].document_hash = DocHash

\* a translation value the field check must refuse: missing, non-string,
\* empty or made of whitespace only
InvalidTranslation(t) == t.ty # "str" \/ \A j \in 1..Len(t.v) : t.v[j] = " "

ChapterText(c) == IF c.some THEN c.v ELSE <<>>

\* C1: a run given the checkpoint with current_chunk_index = k as resume_state
\* issues its provider calls for chunks k, k+1, ... in index order, writes
\* translations only of chunks k, k+1, ... (none of [0..k)), and when it
\* completes it has processed exactly the chunks k..n-1.
C1_ResumeAtCheckpointIndex ==
    Resumed =>
        LET k == resume_state[1].current_chunk_index
        IN  /\ Consecutive(runCalls, k)
            /\ Consecutive(runAppends, k)
            /\ pc \in {"delete", "done"} =>
                   /\ Len(runCalls) = chunks_n - k
                   /\ Len(runAppends) = chunks_n - k

C1_Witness ==
    /\ Resumed
    /\ resume_state[1].current_chunk_index = 1
    /\ crashes >= 1
    /\ pc = "done"
    /\ runCalls = <<1>>
    /\ runAppends = <<1>>

\* C2: when a run completes after any number of crashes and resumes, the
\* output file holds the translation of every chunk exactly once, in
\* chunk-index order.
C2_EveryChunkExactlyOnce ==
    pc = "done" => TrChunks(file) = [j \in 1..chunks_n |-> j - 1]

\* C3: the persisted current_chunk_index never exceeds what the output file
\* holds: every chunk below the index has its translation flushed to the
\* file, so the index is at most the number of translation lines on disk.
C3_CheckpointNeverAheadOfOutput ==
    ckpt # <<>> =>
        /\ ckpt[1].current_chunk_index <= Len(TrChunks(file))
        /\ \A c \in 0..(ckpt[1].current_chunk_index - 1) :
               \E j \in 1..Len(file) : file[j].kind = "tr" /\ file[j].chunk = c

C3_Witness ==
    /\ pc = "crashed"
    /\ crashes = 2
    /\ ckpt # <<>>
    /\ ckpt[1].current_chunk_index = 2
    /\ Len(TrChunks(file)) = 3

\* C4: a translation that is missing, non-string, empty or whitespace-only
\* is never accepted, and a run that failed at chunk i emitted failed only,
\* wrote nothing for chunk i, and left a checkpoint with index i holding the
\* chapter and tail of the last completed chunk (the initial ones if none).
C4_FailureKeepsLastCheckpoint ==
    /\ pc \in {"write", "flush", "save"} => ~InvalidTranslation(tr)
    /\ (pc = "failed" /\ failedAt >= 0) =>
           /\ signals = <<"failed">>
           /\ \A j \in 1..Len(runAppends) : runAppends[j] # failedAt
           /\ ckpt # <<>>
           /\ ckpt[1].current_chunk_index = failedAt
           /\ IF failedAt > 0
              THEN /\ lastDone.chunk = failedAt - 1
                   /\ ckpt[1].current_chapter = ChapterText(lastDone.chapter)
                   /\ ckpt[1].last_translation_tail =
                          last_translation_tail(lastDone.translation)
              ELSE /\ ckpt[1].current_chapter = ChapterText(meta_first)
                   /\ ckpt[1].last_translation_tail = <<>>

C4_Witness ==
    /\ pc = "failed"
    /\ failedAt = 1
    /\ jpc = "idle"
    /\ result # <<>>
    /\ DictGet(result[1], "translation") = PyStr(<<" ", " ">>)
    /\ ckpt # <<>>
    /\ ckpt[1].current_chapter = <<"B">>

C6_PreflightBeforeFirstCall ==
    (runCalls # <<>> /\ i = start_index) =>
        /\ ckpt # <<>>
        /\ ckpt[1].document_hash = DocHash
        /\ ckpt[1].current_chunk_index = start_index

C6_Witness ==
    /\ pc = "crashed"
    /\ Resumed
    /\ start_index = 1
    /\ i = 1
    /\ runCalls = <<1>>

C8_SequentialWithCarryOver ==
    pc = "call" =>
        /\ prompt.chunk = i
        /\ Consecutive(runCalls, start_index)
        /\ runCalls[Len(runCalls)] = i
        /\ ckpt # <<>>
        /\ ckpt[1].current_chunk_index = i
        /\ i > start_index =>
               /\ lastDone.chunk = i - 1
               /\ buf = <<>>
               /\ file[Len(file)] = TrLine(i - 1, Strip(lastDone.translation, " "))
               /\ prompt.tail = last_translation_tail(lastDone.translation)
               /\ prompt.chapter = lastDone.chapter

C8_Witness ==
    /\ pc = "call"
    /\ i = 1
    /\ start_index = 0
    /\ prompt.tail = TrY
    /\ prompt.chapter = SomeChapter(<<"B">>)

\* C9: whenever the first reply parses strictly as a JSON object, the
\* function has returned that object after exactly one provider call,
\* whatever repair_retries is.
C9_ValidFirstReplyOneCall ==
    parse_json_strict(raw).ok =>
        /\ jpc = "ret"
        /\ ncalls = 1
        /\ result = <<parse_json_strict(raw).obj>>

C9_Witness ==
    /\ jpc = "ret"
    /\ repair_retries = MaxRepairs
    /\ ncalls = 1
    /\ raw = <<WS, LB, Mem("chapter", PyStr(ChB)), WS, Mem("translation", PyStr(TrY)), RB, WS>>

\* C10: never more than repair_retries + 1 provider calls; InvalidJSONError
\* is raised after exactly repair_retries + 1 calls none of whose replies
\* parsed; an exhausted loop can only raise; and a returned object is the
\* parse of the reply received last.
C10_BoundedRepairThenInvalidJSON ==
    /\ ncalls <= repair_retries + 1
    /\ (jpc = "raise" /\ jerr = "InvalidJSONError") =>
           /\ ncalls = repair_retries + 1
           /\ ~first_reply(raw).returns
           /\ ~parse_json_strict(bad).ok
    /\ (jpc = "repair" /\ ncalls = repair_retries + 1) =>
           /\ ENABLED ChatExhausted
           /\ ~ENABLED ChatRepairCall
    /\ jpc = "ret" =>
           /\ result # <<>>
           /\ IF ncalls = 1
              THEN first_reply(raw).returns /\ result[1] = first_reply(raw).obj
              ELSE parse_json_strict(bad).ok /\ result[1] = parse_json_strict(bad).obj

C10_Witness ==
    /\ jpc = "raise"
    /\ jerr = "InvalidJSONError"
    /\ repair_retries = 2
    /\ ncalls = 3

\* C11: a first reply that is not strict JSON but whose substring from the
\* first "{" to the last "}" parses is returned as that object after the one
\* call, without any repair call; the repair loop is entered (and a second
\* call made) only when the strict parse and the loose extraction both failed.
C11_LooseExtractionAvoidsRepair ==
    LET extracted == extract_json_object_loose(raw)
        loose_ok == extracted.some /\ parse_json_strict(extracted.v).ok
        received == ncalls >= 1 /\ ~(ncalls = 1 /\ jpc = "raise")
    IN  /\ received =>
            /\ (~parse_json_strict(raw).ok /\ loose_ok) =>
                   /\ jpc = "ret"
                   /\ ncalls = 1
                   /\ attempt = 0
                   /\ result = <<parse_json_strict(extracted.v).obj>>
            /\ (jpc = "repair" \/ ncalls > 1 \/ jerr = "InvalidJSONError") =>
                   /\ ~parse_json_strict(raw).ok
                   /\ ~loose_ok

C11_Witness ==
    /\ jpc = "ret"
    /\ ncalls = 1
    /\ repair_retries = MaxRepairs
    /\ raw = <<PR, LB, Mem("translation", PyStr(TrX)), RB, PR>>
    /\ ~parse_json_strict(raw).ok
    /\ result = <<DictOf(<<Mem("translation", PyStr(TrX))>>)>>

(***************************************************************************)
(* Properties of generate_metadata.                                        *)
(***************************************************************************)
UploadErrorTypes == {"UploadNotSupportedError", "UploadFailedError"}
PropagatedTypes == {"InvalidJSONError", "SchemaValidationError", "DocumentReadError"}
AbsorbedMessages == {e.msg : e \in {d \in DocErrors : d.ty \in UploadErrorTypes}}

Returned == mpc = "returned"
Raised == mpc = "raised"

\* C12: with file_path and raw_text present, once the upload path has raised
\* UploadNotSupported or UploadFailed, every result is strategy "chunked"
\* whose fallback_reason is the message of the error raised first.
C12_FallbackReasonIsFirstUploadError ==
    (/\ Returned
     /\ file_path_present
     /\ raw_text_present
     /\ m_first_doc_error # <<>>
     /\ m_first_doc_error[1].ty \in UploadErrorTypes) =>
        /\ m_result[1].strategy_used = "chunked"
        /\ m_result[1].fallback_reason = <<m_first_doc_error[1].msg>>

\* C13: at most 1 + upload_retries invocations of _upload_metadata; a result
\* obtained without falling back, retries included, is strategy "upload";
\* when every invocation was left by a TransientLLMError the chunked strategy
\* is entered after exactly 1 + upload_retries of them with the reason
\* "upload transient failure".
C13_BoundedTransientRetry ==
    /\ m_attempts <= 1 + upload_retries
    /\ m_transients <= m_attempts
    /\ (Returned /\ m_stage = "upload") =>
           /\ m_result[1].strategy_used = "upload"
           /\ m_result[1].fallback_reason = NoReason
    /\ (m_attempts >= 1 /\ m_transients = m_attempts) =>
           /\ m_stage = "chunked"
           /\ m_attempts = 1 + upload_retries
           /\ m_reason = <<UPLOAD_TRANSIENT_FAILURE>>
           /\ Returned =>
                 /\ m_result[1].strategy_used = "chunked"
                 /\ m_result[1].fallback_reason = <<UPLOAD_TRANSIENT_FAILURE>>
    /\ (m_stage = "chunked" /\ m_reason = <<UPLOAD_TRANSIENT_FAILURE>>) =>
           m_transients = m_attempts

C13_Witness ==
    /\ Returned
    /\ upload_retries = 2
    /\ m_attempts = 3
    /\ m_transients = 3
    /\ m_result[1].fallback_reason = <<UPLOAD_TRANSIENT_FAILURE>>

\* C14: once a reply of chat_text_with_document failed to parse, the attempt
\* makes no further chat_text_with_document call, its chat_text calls are
\* the first request and at most json_repair_retries repairs, and a result
\* of the attempt is strategy "upload".
C14_NoReuploadAfterInvalidReply ==
    (m_stage = "upload" /\ m_invalid_at > m_att_start) =>
        /\ m_doc_calls = m_invalid_at
        /\ m_chat_calls - m_chat_start <= json_repair_retries + 1
        /\ Returned => m_result[1].strategy_used = "upload"

\* C15: without file_path and with raw_text, chat_text_with_document is never
\* called and every result is strategy "chunked" with the reason
\* "no file provided for upload".
C15_NoFileGoesChunked ==
    (~file_path_present /\ raw_text_present) =>
        /\ m_doc_calls = 0
        /\ m_attempts = 0
        /\ Returned =>
              /\ m_result[1].strategy_used = "chunked"
              /\ m_result[1].fallback_reason = <<NO_FILE_REASON>>

C15_Witness ==
    /\ Returned
    /\ ~file_path_present
    /\ raw_text_present
    /\ m_summaries = MaxMetaChunks
    /\ m_result[1].fallback_reason = <<NO_FILE_REASON>>

\* C16: the chunked strategy entered without raw_text raises
\* DocumentReadError, and no chat_text call (summary or synthesis) is made
\* between entering the strategy and the error.
C16_ChunkedWithoutRawTextFails ==
    (m_stage = "chunked" /\ ~raw_text_present) =>
        /\ m_chat_calls = m_chat_start
        /\ m_summaries = 0
        /\ mpc \in {"chunked_entry", "raised"}
        /\ Raised => m_err = <<DocumentReadError>>
        /\ mpc = "chunked_entry" => ENABLED ChunkedEntry

C16_Witness ==
    /\ Raised
    /\ m_err = <<DocumentReadError>>
    /\ file_path_present
    /\ m_reason = <<UPLOAD_TRANSIENT_FAILURE>>
    /\ m_chat_calls > 0

\* C17: an InvalidJSONError leaving the strict-JSON protocol, a metadata
\* object that fails validation and a missing raw_text each end
\* generate_metadata with that error, in the first try, the retry loop and
\* the chunked strategy alike; no result is returned with invalid metadata;
\* and the upload strategy gives way to the chunked one only on an
\* UploadNotSupported or UploadFailed error of chat_text_with_document or on
\* a TransientLLMError that exhausts the retries.
C17_FatalErrorsPropagate ==
    /\ [][ /\ (mpc \in {"upload_repair", "synthesis"} /\ jpc = "raise"
                  /\ jerr = "InvalidJSONError") =>
                  (mpc' = "raised" /\ m_err' = <<ChatError("InvalidJSONError")>>
                      /\ m_result' = <<>>)
           /\ (mpc = "chunked_entry" /\ ~raw_text_present) =>
                  (mpc' = "raised" /\ m_err' = <<DocumentReadError>> /\ m_result' = <<>>)
           /\ (~Returned /\ mpc' = "returned") =>
                  validate_metadata_json(m_result'[1].metadata)
           /\ (~Raised /\ mpc' = "raised" /\ m_err'[1].ty \in PropagatedTypes) =>
                  m_stage' = m_stage
           /\ (m_stage = "upload" /\ m_stage' = "chunked") =>
                  \/ /\ m_doc_calls' = m_doc_calls + 1
                     /\ m_reason'[1] \in AbsorbedMessages
                  \/ /\ m_transients' = m_transients + 1
                     /\ m_transients' = 1 + upload_retries
                     /\ m_reason' = <<UPLOAD_TRANSIENT_FAILURE>> ]_vars
    /\ [](Raised => (m_result = <<>> /\ ~ENABLED MetaNext))
    /\ [](Returned => m_err = <<>>)

C17_Witness ==
    /\ Raised
    /\ m_err = <<SchemaValidationError>>
    /\ m_stage = "upload"
    /\ m_retry = 1
    /\ m_result = <<>>

\* C18: every returned MetadataResult carries the requested target language
\* in metadata.target_language, and is either strategy "upload" without a
\* fallback_reason or strategy "chunked" with one.
C18_ResultShape ==
    Returned =>
        /\ m_result # <<>>
        /\ m_result[1].metadata["target_language"] = PyStr(target_language)
        /\ m_result[1].strategy_used \in {"upload", "chunked"}
        /\ m_result[1].strategy_used = "upload" <=> m_result[1].fallback_reason = NoReason
        /\ m_result[1].strategy_used = "chunked" <=> Len(m_result[1].fallback_reason) = 1

C18_Witness ==
    /\ Returned
    /\ m_result[1].strategy_used = "upload"
    /\ m_result[1].metadata["title"] = PyStr(NOT_PROVIDED)
    /\ m_result[1].metadata["target_language"] = PyStr(target_language)
    /\ target_language # <<"x", "x">>

(***************************************************************************)
(* Properties of chunk_by_chars.                                           *)
(***************************************************************************)
IsSpace(c) == c \in {" ", "\n"}

\* the offset of the first character at or after `from` that is not
\* whitespace, Len(t) if there is none
SkipSpace(t, from) ==
    LET rest == {p \in from..(Len(t) - 1) : ~IsSpace(t[p + 1])}
    IN  IF rest = {} THEN Len(t) ELSE SetMin(rest)

\* cs are consecutive substrings of t from offset `from` on, in this order,
\* separated, preceded and followed by whitespace only
RECURSIVE Covers(_, _, _)
Covers(t, cs, from) ==
    LET p == SkipSpace(t, from)
    IN  IF cs = <<>> THEN p = Len(t)
        ELSE LET c == Head(cs)
             IN  /\ p + Len(c) <= Len(t)
                 /\ Slice(t, p, p + Len(c)) = c
                 /\ Covers(t, Tail(cs), p + Len(c))

\* the characters of t that are not whitespace, in order
RECURSIVE Visible(_)
Visible(t) ==
    IF t = <<>> THEN <<>>
    ELSE IF IsSpace(Head(t)) THEN Visible(Tail(t))
    ELSE <<Head(t)>> \o Visible(Tail(t))

RECURSIVE Concat(_)
Concat(cs) == IF cs = <<>> THEN <<>> ELSE Head(cs) \o Concat(Tail(cs))

\* cs occur in t as disjoint substrings, in this order, from offset `from` on:
\* each is placed at its leftmost occurrence after the one before it
RECURSIVE InOrder(_, _, _)
InOrder(t, cs, from) ==
    IF cs = <<>> THEN TRUE
    ELSE LET c == Head(cs)
             ps == {p \in from..(Len(t) - Len(c)) : Slice(t, p, p + Len(c)) = c}
         IN  /\ ps # {}
             /\ InOrder(t, Tail(cs), SetMin(ps) + Len(c))

\* C19: for chunk_size > 0, in soft and in hard mode, every chunk collected
\* so far and every returned chunk is non-empty and has at most chunk_size
\* characters, and the chunks are disjoint substrings of the text that occur
\* in it in the order of the list (source order); in hard mode they
\* concatenate to the text.
C19_ChunksBoundedNonEmptyOrdered ==
    (chunk_size > 0 /\ cpc \in {"loop", "done"}) =>
        /\ \A k \in 1..Len(chunks) :
              /\ chunks[k] # <<>>
              /\ Len(chunks[k]) <= chunk_size
        /\ InOrder(c_text, chunks, 0)
        /\ (cpc = "done" /\ ~soft_split) => Concat(chunks) = c_text

C19_Witness ==
    /\ cpc = "done"
    /\ soft_split
    /\ chunk_size = 2
    /\ c_text = <<"a", "b", ".", " ", "a">>
    /\ chunks = << <<"a", "b">>, <<".">>, <<"a">> >>

\* C20: in soft mode with chunk_size > 0 the returned chunks are disjoint
\* substrings of the text in text order, and the characters between, before
\* and after them are all whitespace: the characters of the text that are
\* not whitespace are those of the chunks, each once and in the same order.
\* During the loop the same holds of the part of the text already consumed.
C20_SoftChunksCoverText ==
    (chunk_size > 0 /\ soft_split) =>
        /\ cpc = "done" =>
              /\ Covers(c_text, chunks, 0)
              /\ Visible(Concat(chunks)) = Visible(c_text)
        /\ cpc = "loop" =>
              /\ c_i <= Len(c_text)
              /\ Covers(Slice(c_text, 0, c_i), chunks, 0)

C20_Witness ==
    /\ cpc = "done"
    /\ soft_split
    /\ chunk_size = 2
    /\ c_text = <<" ", "a", " ", "b", "\n">>
    /\ chunks = << <<"a">>, <<"b">> >>

\* C21: for chunk_size <= 0 chunk_by_chars raises, whatever the text and the
\* mode, the empty text included, and returns nothing; for chunk_size > 0
\* and the empty text it returns the empty list.
C21_InvalidSizeFailsEmptyTextEmpty ==
    cpc # "start" =>
        /\ chunk_size <= 0 => (cpc = "ValueError" /\ chunks = <<>>)
        /\ cpc = "ValueError" => chunk_size <= 0
        /\ (chunk_size > 0 /\ c_text = <<>>) => (cpc = "done" /\ chunks = <<>>)

C21_Witness ==
    /\ cpc = "ValueError"
    /\ c_text = <<>>
    /\ chunk_size = 0
    /\ soft_split

\* C23: a chat_text_with_document call that fails with UploadNotSupported or
\* UploadFailed moves the resolver to the chunked strategy in that very
\* step, and no chat_text_with_document call is issued after it.
C23_UploadFailureGoesChunkedAtOnce ==
    [][/\ (/\ m_first_doc_error = <<>>
           /\ m_first_doc_error' # <<>>
           /\ m_first_doc_error'[1].ty \in UploadErrorTypes) => m_stage' = "chunked"
       /\ (/\ m_first_doc_error # <<>>
           /\ m_first_doc_error[1].ty \in UploadErrorTypes) => m_doc_calls' = m_doc_calls]_vars

\* C30: when the repairs are exhausted, the InvalidJSONError raised carries
\* the parse error of the last reply that failed to parse, that is of the
\* reply to the last chat_text call made, the initial call included.
C30_ExhaustionCarriesLastParseError ==
    (jpc = "raise" /\ jerr = "InvalidJSONError") => last_err = ncalls

\* C29: the prompt of the first repair iteration embeds the original
\* unparseable reply, and the prompt of every later iteration embeds the reply
\* of the repair iteration just before it, which is the original reply only
\* when the two texts are equal.
C29_RepairCarriesLatestReply ==
    [][(jpc = "repair" /\ ncalls' = ncalls + 1) =>
          /\ attempt = 0 => fix_user' = <<raw>>
          /\ attempt > 0 => fix_user' = last_reply
          /\ (attempt > 0 /\ last_reply # <<raw>>) => fix_user' # <<raw>>]_vars

\* a second repair prompt was built from a repair reply that differs from the
\* original reply
C29_Witness ==
    /\ jpc = "ret"
    /\ attempt = 1
    /\ ncalls = 3
    /\ fix_user # <<>>
    /\ fix_user # <<raw>>

\* positions of the header block in an output
HdrAt(f) == {k \in 1..Len(f) : f[k] = Hdr}

\* C28: over runs, crashes and resumes on one output file, the output holds
\* the header at most once and only as its first block, so before every
\* chunk translation; and a step adds a header only when it opens the file
\* and finds it empty.
C28_HeaderOnceAtTopOnlyIfEmpty ==
    [][/\ HdrAt(file' \o buf') \subseteq {1}
       /\ HdrAt(file') \subseteq {1}
       /\ Cardinality(HdrAt(file' \o buf')) > Cardinality(HdrAt(file \o buf))
             => (pc = "open" /\ file = <<>>)]_vars

\* a resumed run appended a translation to a file that already held the header
C28_Witness ==
    /\ crashes >= 1
    /\ Resumed
    /\ pc = "done"
    /\ Len(file) = 1 + MaxChunks
    /\ file[1] = Hdr
    /\ runAppends # <<>>
    /\ Len(runAppends) < MaxChunks

\* C25: a run for this document never overwrites or deletes a checkpoint
\* file whose stored document_hash is not this document's hash, whatever
\* resume_state and resume_state_path the caller supplied.
C25_ForeignCheckpointUntouched ==
    [][/\ (other_ckpt # <<>> /\ other_ckpt[1].document_hash # DocHash)
              => other_ckpt' = other_ckpt
       /\ (ckpt # <<>> /\ ckpt[1].document_hash # DocHash) => ckpt' = ckpt]_vars

\* C26: once run() has looked at the supplied state, it has adopted the
\* state's index, chapter and tail if the state's document_hash is this
\* document's hash; in every other case it starts at index 0 with an empty
\* tail and the first chapter of the metadata, or no chapter if there is none.
C26_AdoptIffHashMatches ==
    pc = "preflight" =>
        IF resume_state # <<>> /\ resume_state[1].document_hash = DocHash
        THEN /\ start_index = resume_state[1].current_chunk_index
             /\ ChapterText(current_chapter) = resume_state[1].current_chapter
             /\ prev_tail = resume_state[1].last_translation_tail
        ELSE /\ start_index = 0
             /\ prev_tail = <<>>
             /\ current_chapter = meta_first

\* C27: at every point of a save, a crash included, the file at the
\* checkpoint path is the complete checkpoint that was there when the save
\* began or the complete new one, never a partial text; the temporary file
\* is not among the files iter_state_files lists, and find_state_by_hash
\* never returns it.
C27_SaveStateAtomic ==
    spc # "off" =>
        /\ \/ fs[OwnPath] = s_prev
           \/ s_obj # <<>> /\ fs[OwnPath] = <<FullText(s_obj[1])>>
        /\ fs[OwnPath] # <<>> => fs[OwnPath][1].complete
        /\ s_prev # <<>> => s_prev[1].complete
        /\ \A k \in 1..Len(iter_state_files(SaveDir)) :
               /\ iter_state_files(SaveDir)[k].path # tmp_path(OwnPath)
               /\ iter_state_files(SaveDir)[k].text.complete
        /\ (s_found # <<>> /\ s_found[1].some) =>
               /\ s_found[1].path = OwnPath
               /\ <<FullText(s_found[1].obj)>> = fs[OwnPath]

\* after a crash in the middle of a write, the lookup found the previous
\* checkpoint while the partial temporary file lies in the directory
C27_Witness ==
    /\ spc = "idle"
    /\ s_found # <<>>
    /\ s_found[1].some
    /\ s_found[1].obj = s_prev[1].obj
    /\ s_obj # <<s_prev[1].obj>>
    /\ fs[tmp_path(OwnPath)] # <<>>
    /\ ~fs[tmp_path(OwnPath)][1].complete

\* C24: in a run resumed from a checkpoint of the same document, every chunk
\* index denotes the same source text as in the interrupted run, whatever
\* chunk size the resuming session is configured with: the two runs have
\* the same chunks at the same indices.
C24_ResumeKeepsChunkIndexMeaning ==
    rpc = "resumed" =>
        /\ Len(r_chunks) = Len(r_prev_chunks)
        /\ \A k \in 1..Len(r_chunks) : r_chunks[k] = r_prev_chunks[k]

\* the prompt lines that list the chapter with key k
LinesOf(k) == {l \in 1..Len(p_prompt) : p_prompt[l].key = k}

\* C22: for a chapters map and any current_chapter, the built prompt lists
\* each chapter of the map exactly once, with the detailed summary for the
\* chapter whose key equals current_chapter and the general summary for
\* every other chapter; when current_chapter is None or equals no key, no
\* detailed summary is in the prompt.
C22_DetailedOnlyForCurrentChapter ==
    (ppc = "built" /\ p_chapters.ty = "dict") =>
        LET es == p_chapters.entries
            matched == {j \in 1..Len(es) : p_current.some /\ p_current.v = es[j].key}
        IN  /\ Len(p_prompt) = Len(es)
            /\ \A j \in 1..Len(es) :
                   /\ Cardinality(LinesOf(es[j].key)) = 1
                   /\ \A l \in LinesOf(es[j].key) :
                          p_prompt[l].summary =
                              IF j \in matched THEN es[j].detailed ELSE es[j].general
            /\ matched = {} =>
                   \A l \in 1..Len(p_prompt), j \in 1..Len(es) :
                       p_prompt[l].summary # es[j].detailed

\* a prompt for a map of two chapters whose first chapter is the current one
C22_Witness ==
    /\ ppc = "built"
    /\ p_chapters.ty = "dict"
    /\ Len(p_chapters.entries) = 2
    /\ p_current = SomeChapter(p_chapters.entries[1].key)
    /\ p_prompt[1].summary = p_chapters.entries[1].detailed
    /\ p_prompt[2].summary = p_chapters.entries[2].general

\* C31: the chunked strategy issues its summary calls one per chunk, in
\* chunk order from chunk 0, never more than min(chunks, max_chunk_summaries);
\* the augmented prompt goes exactly to the chunk indices below the
\* early-chunk threshold; the synthesis request is issued once, when exactly
\* min(chunks, max_chunk_summaries) summary calls have been issued and all of
\* them have returned.
C31_SummaryCallsThenOneSynthesis ==
    LET wanted == IF m_chunks_n < max_chunk_summaries
                  THEN m_chunks_n ELSE max_chunk_summaries
        calls == m_summary_calls
    IN  /\ Len(calls) <= wanted
        /\ \A k \in 1..Len(calls) :
               /\ calls[k].chunk = k - 1
               /\ calls[k].early <=> (k - 1 < first_chunks_with_hint)
        /\ m_stage # "chunked" => calls = <<>>
        /\ (m_stage = "chunked" /\ (mpc = "synthesis" \/ mpc = "returned")) =>
               /\ Len(calls) = wanted
               /\ m_summaries = wanted
               /\ m_chat_calls - m_chat_start = wanted + ncalls
               /\ ncalls <= 1 + json_repair_retries
        /\ (m_stage = "chunked" /\ mpc = "returned") => ncalls >= 1

\* two summaries were made, the first with the augmented prompt and the
\* second without, a third chunk was left out, and the synthesis has returned
C31_Witness ==
    /\ mpc = "returned"
    /\ m_stage = "chunked"
    /\ Len(m_summary_calls) = 2
    /\ m_summary_calls[1].early
    /\ ~m_summary_calls[2].early
    /\ ncalls >= 1

C36_TailIsEndOfAppendedText ==
    [][(pc = "save" /\ pc' = "loop") =>
          LET written == IF state_path = OwnPath THEN ckpt' ELSE other_ckpt'
              line == file[Len(file)]
          IN  /\ line = TrLine(i, Strip(tr.v, " "))
              /\ Len(written[1].last_translation_tail) <= TAIL_CHARS
              /\ written[1].last_translation_tail = last_translation_tail(line.text)
      ]_vars

OccursAt(w, sep, k) ==
    /\ k >= 0
    /\ k + Len(sep) <= Len(w)
    /\ SubSeq(w, k + 1, k + Len(sep)) = sep

OccursIn(w, sep) == \E k \in 0..Len(w) : OccursAt(w, sep, k)

\* the five separator types of the claim, in priority order
SeparatorTypes ==
    << { <<"\n", "\n">> },
       { <<"\n">> },
       { <<".", " ">>, <<"?", " ">>, <<"!", " ">> },
       { <<";", " ">>, <<":", " ">>, <<",", " ">> },
       { <<" ">> } >>

BlankField(obj, k) ==
    \/ k \notin DOMAIN obj
    \/ obj[k].ty = "none"
    \/ obj[k].ty = "str" /\ \A j \in 1..Len(obj[k].v) : obj[k].v[j] \in {" ", "\n"}

\* the names of a list that are not blank, joined by ", "
RECURSIVE CommaJoined(_)
CommaJoined(items) ==
    IF items = <<>> THEN <<>>
    ELSE IF Head(items) = " " THEN CommaJoined(Tail(items))
    ELSE IF CommaJoined(Tail(items)) = <<>> THEN <<Head(items)>>
    ELSE <<Head(items), ",", " ">> \o CommaJoined(Tail(items))

\* C38 as stated: normalize_not_provided maps every required field
\* (author(s), title, language, summary, chapters) that is missing, null, or
\* an empty or whitespace-only string to the string "not provided", and a
\* list-valued author(s) to the comma-joined string of its elements.
C38_BlankFieldsBecomeNotProvided ==
    npc \in {"normalized", "validated"} =>
        /\ \A k \in {"author(s)", "title", "language", "summary", "chapters"} :
               BlankField(n_obj, k) => n_out[k] = PyStr(NOT_PROVIDED)
        /\ ("author(s)" \in DOMAIN n_obj /\ n_obj["author(s)"].ty = "list"
                /\ CommaJoined(n_obj["author(s)"].v) # <<>>) =>
               n_out["author(s)"] = PyStr(CommaJoined(n_obj["author(s)"].v))

\* C38, amended: normalize_not_provided maps each of author(s), title,
\* language and summary that is missing, null, or an empty or
\* whitespace-only string to the string "not provided"; it maps a chapters
\* field in one of those states to the empty object {}; it maps a
\* list-valued author(s) to its non-blank elements, stripped and joined by
\* ", ", or to "not provided" when no element is left.
C38_BlankFieldsNormalised ==
    npc \in {"normalized", "validated"} =>
        /\ \A k \in {"author(s)", "title", "language", "summary"} :
               BlankField(n_obj, k) => n_out[k] = PyStr(NOT_PROVIDED)
        /\ BlankField(n_obj, "chapters") => n_out["chapters"] = PyDict(<<>>)
        /\ ("author(s)" \in DOMAIN n_obj /\ n_obj["author(s)"].ty = "list") =>
               n_out["author(s)"] =
                   PyStr(IF CommaJoined(n_obj["author(s)"].v) # <<>>
                         THEN CommaJoined(n_obj["author(s)"].v)
                         ELSE NOT_PROVIDED)

\* a whitespace-only title, a missing language, null chapters and a list of
\* two authors with a blank one have been normalised
C38_Witness ==
    /\ npc = "normalized"
    /\ DictGet(n_obj, "title") = PyStr(<<" ", "\n">>)
    /\ "language" \notin DOMAIN n_obj
    /\ "chapters" \notin DOMAIN n_obj
    /\ DictGet(n_obj, "author(s)") = PyList(<<" ", "a">>)
    /\ n_out["title"] = PyStr(NOT_PROVIDED)
    /\ n_out["language"] = PyStr(NOT_PROVIDED)
    /\ n_out["chapters"] = PyDict(<<>>)
    /\ n_out["author(s)"] = PyStr(<<"a">>)

\* C32: every metadata object that conforms to the schema declared in the
\* upload request (METADATA_SCHEMA), one with at least one chapter included,
\* passes validate_metadata_json after normalize_not_provided.
C32_SchemaObjectsPassValidation ==
    (npc = "validated" /\ conforms_to_METADATA_SCHEMA(n_obj)) => n_valid = <<TRUE>>

\* C34: after any sequence of save_metadata_cache and
\* delete_metadata_cache_for_hash calls there is at most one cache record per
\* document hash, and a lookup by hash (find_metadata_cache_by_hash, then
\* load_metadata_cache) gives the metadata of the most recent save for that
\* hash that no delete followed, and nothing after a delete, also when
\* successive saves for the hash use different title hints.
C34_OneRecordPerHashLatestWins ==
    /\ \A h \in {DocHash, OtherHash} :
           Cardinality({f \in glob_cache(k_dir, h) : f.rec.ok}) <= 1
    /\ kpc = "looked" => k_found.meta = k_last[HashKey(k_found.hash)]

\* C33: when a metadata cache record exists on disk for the document hash
\* and loads, run() takes its metadata from a record of that hash and not
\* from the caller's in-memory metadata; the in-memory metadata is used only
\* when no record exists for the hash or the record found cannot be loaded.
C33_DiskRecordBeforeMemory ==
    kpc = "resolved" =>
        LET recs == glob_cache(k_dir, DocHash)
        IN  /\ k_meta # <<>>
            /\ (recs # {} /\ \A f \in recs : f.rec.ok) =>
                   \E f \in recs : k_meta[1] = f.rec.metadata
            /\ k_meta[1] = <<0>> =>
                   \/ recs = {}
                   \/ \E f \in recs : k_hit = <<f.path>> /\ ~f.rec.ok
            /\ recs = {} => k_meta[1] = k_memory

\* the caller holds metadata in memory, the record saved under the title
\* hint "a" was found on disk and its metadata, not the caller's, was taken
C33_Witness ==
    /\ kpc = "resolved"
    /\ k_memory = <<0>>
    /\ k_hit = <<cache_path_for(DocHash, <<"a">>)>>
    /\ k_meta = << <<2>> >>
    /\ glob_cache(k_dir, OtherHash) # {}

====
